---- MODULE Spec2Model ----
(***************************************************************************)
(* A model of the QR code generator grkuntzmd/qrcodegen.                   *)
(*                                                                         *)
(* The encoder is a pure, synchronous computation, so an operation is one  *)
(* action that draws its inputs from a bounded set and stores what the     *)
(* code returns; SpecShared alone splits a call into steps.  The functions *)
(* of the code are operators computed the way the code computes them.      *)
(*                                                                         *)
(*   SpecPlan  EncodeSegments up to the choice of version and level        *)
(*             (lines 57-103), over segments given by their lengths, so    *)
(*             that every version 1..40 and both capacity errors happen.   *)
(*   SpecBits  getTotalBits on segments given by their lengths.            *)
(*   SpecRS    reedSolomonComputeDivisor and reedSolomonComputeRemainder.  *)
(*   SpecEncode  EncodeSegments, whole, on segments made by MakeBytes.     *)
(*   SpecData    EncodeSegments, whole, on segments of every mode.         *)
(*   SpecSegs    MakeNumeric, MakeAlphanumeric, MakeSegments and MakeECI.  *)
(*   SpecText    EncodeText and EncodeBinary.                              *)
(*   SpecAlign   getAlignmentPatternPositions and the table init fills.    *)
(*   SpecBlocks  addECCAndInterleave at every level.                       *)
(*   SpecShared  several calls of EncodeSegments whose steps interleave.   *)
(*   SpecDraw    drawFunctionPatterns, drawCodewords, applyMask and        *)
(*               handleConstructorMasking, step by step on one symbol.     *)
(*   SpecBalance the last term of getPenaltyScore.                         *)
(*   SpecMultiply  reedSolomonMultiply on every pair of bytes.             *)
(*   SpecMade    EncodeSegments, whole, on segments of every maker with    *)
(*               options of every kind.                                    *)
(***************************************************************************)
EXTENDS Integers, Sequences, FiniteSets, TLC

VARIABLES
  pc,         \* "idle" before the call, "returned" after it
  segs,       \* the segments given to EncodeSegments or getTotalBits
  ecl,        \* the level given to EncodeSegments
  options,    \* the options given to EncodeSegments
  result,     \* what EncodeSegments returned
  tbVersion,  \* the version given to getTotalBits
  tbResult,   \* what getTotalBits returned
  rsData,     \* the data bytes given to reedSolomonComputeRemainder
  rsDegree,   \* the degree given to reedSolomonComputeDivisor
  rsRemainder, \* what reedSolomonComputeRemainder returned
  qr,         \* the symbol EncodeSegments returned
  panic,      \* the abort EncodeSegments ended with, "none" if it returned
  masking,     \* the symbol before masking and the penalties computed
  text,       \* the text given to MakeNumeric, MakeAlphanumeric or MakeSegments
  assignValue, \* the value given to MakeECI
  made,       \* what the Make function returned, or its abort
  alignVersion, \* the version given to getAlignmentPatternPositions
  alignResult, \* the positions returned, or read from the table
  static,     \* the tables of the package, as the calls see them
  symbols,    \* the symbols the calls have allocated
  calls,      \* the position and the locals of each call
  bitBuffer,  \* the bit string bb of EncodeSegments
  dataBytes,  \* the data codewords of EncodeSegments
  eccVersion, \* the version of the symbol given to addECCAndInterleave
  eccData,    \* the data codewords given to addECCAndInterleave
  eccResult,  \* what addECCAndInterleave built and returned
  sym,        \* the symbol under construction
  symData,    \* the codewords given to drawCodewords
  symTrace,   \* what the loops of drawCodewords carried at their end
  symPatterned, \* the symbol as drawFunctionPatterns left it
  symDrawn,   \* the symbol as drawCodewords left it
  symMask,    \* the mask given to applyMask, or returned
  balVersion, \* the version of the symbol getPenaltyScore scores
  balBlack,   \* the number of its black modules
  balResult,  \* the term of the balance of black and white
  mulX,       \* the first operand of reedSolomonMultiply
  mulY,       \* its second operand
  mulResult  \* the byte it returns

vars == <<pc, segs, ecl, options, result, tbVersion, tbResult,
          rsData, rsDegree, rsRemainder, qr, panic, masking,
          text, assignValue, made,
          alignVersion, alignResult,
          static, symbols, calls,
          bitBuffer, dataBytes,
          eccVersion, eccData, eccResult,
          sym, symData, symTrace, symPatterned, symDrawn, symMask,
          balVersion, balBlack, balResult,
          mulX, mulY, mulResult>>

(***************************************************************************)
(* Bounds of the model.                                                    *)
(***************************************************************************)
\* The longest segment list an encode call is given.
MaxSegs == 2
\* The longest option list an encode call is given.
MaxOpts == 2
\* The largest generator degree and the longest data block of SpecRS.
MaxDegree == 7
MaxDataLen == 3
\* the longest byte string given to MakeBytes
MaxBytes == 2
\* SpecSegs: the longest text over TextByteChoices
MaxText == 4
MaxCalls == 2
\* SpecBlocks: the largest version of a symbol given to addECCAndInterleave
MaxBlockVersion == 5
\* SpecDraw: the largest version of a symbol given to drawCodewords
MaxDrawVersion == 7
\* SpecBalance: the largest version taken with every number of black modules
MaxBalanceVersion == 3
\* SpecMultiply: the number of third operands of the laws with three operands
MaxThird == 2

(***************************************************************************)
(* Program constants.                                                      *)
(***************************************************************************)
Low == 0
Medium == 1
Quartile == 2
High == 3
MinVersion == 1
MaxVersion == 40
MaxInt32 == 2147483647

Levels == Low..High
Versions == MinVersion..MaxVersion

min(a, b) == IF a < b THEN a ELSE b
max(a, b) == IF a > b THEN a ELSE b
abs(a) == IF a >= 0 THEN a ELSE -a
bToI(b) == IF b THEN 1 ELSE 0

(***************************************************************************)
(* Loops.  forRange(body, st, lo, hi) is what the loop                     *)
(*     for k := lo; k < hi; k++ { st = body(st, k) }                       *)
(* leaves in st.  The range is cut in two and the first half is computed   *)
(* before the second, so the passes happen in the order of the code and    *)
(* the nesting of the evaluation grows with the logarithm of the number of *)
(* passes.  A loop of the code that ends on a condition is run over a      *)
(* range it cannot exceed, with a body that leaves st alone once the       *)
(* condition has ended the loop.                                           *)
(*                                                                         *)
(* Sequencing.  after(v, f) is f(v), what "x := v; ... x ..." computes:    *)
(* v is computed first and once, then handed to f.  evaluated(v) is TRUE;  *)
(* it makes TLC compute v on the spot.                                     *)
(***************************************************************************)
evaluated(v) == v = v

after(v, f(_)) == CASE evaluated(v) -> f(v)

RECURSIVE passes(_, _, _, _)
passes(body(_, _), st, lo, hi) ==
  IF st = st /\ hi = lo + 1 THEN body(st, lo)
  ELSE passes(body, passes(body, st, lo, (lo + hi) \div 2), (lo + hi) \div 2, hi)

forRange(body(_, _), st, lo, hi) == IF hi <= lo THEN st ELSE passes(body, st, lo, hi)

(***************************************************************************)
(* Go's ^ and | on integers of 0..2^32-1: the operands are cut in two      *)
(* halves of their bits, down to single bits.                              *)
(***************************************************************************)
RECURSIVE xorBits(_, _, _)
xorBits(a, b, width) ==
  IF a = 0 THEN b
  ELSE IF b = 0 THEN a
  ELSE IF width = 1 THEN 0
  ELSE xorBits(a \div (2 ^ (width \div 2)), b \div (2 ^ (width \div 2)), width \div 2)
           * (2 ^ (width \div 2))
         + xorBits(a % (2 ^ (width \div 2)), b % (2 ^ (width \div 2)), width \div 2)

Xor(a, b) == IF a < 256 /\ b < 256 THEN xorBits(a, b, 8) ELSE xorBits(a, b, 32)

RECURSIVE orBits(_, _, _)
orBits(a, b, width) ==
  IF a = 0 THEN b
  ELSE IF b = 0 THEN a
  ELSE IF width = 1 THEN 1
  ELSE orBits(a \div (2 ^ (width \div 2)), b \div (2 ^ (width \div 2)), width \div 2)
           * (2 ^ (width \div 2))
         + orBits(a % (2 ^ (width \div 2)), b % (2 ^ (width \div 2)), width \div 2)

Or(a, b) == IF a < 256 /\ b < 256 THEN orBits(a, b, 8) ELSE orBits(a, b, 32)

(***************************************************************************)
(* Static tables (package.go).  The Go arrays are indexed [level][version] *)
(* with an unused entry at version 0; the sequences here start at version  *)
(* 1 and the level index is shifted by one.                                *)
(***************************************************************************)
eccCodeWordsPerBlock ==
  << <<7, 10, 15, 20, 26, 18, 20, 24, 30, 18, 20, 24, 26, 30, 22, 24, 28, 30, 28, 28, 28, 28, 30, 30, 26, 28, 30, 30, 30, 30, 30, 30, 30, 30, 30, 30, 30, 30, 30, 30>>,
     <<10, 16, 26, 18, 24, 16, 18, 22, 22, 26, 30, 22, 22, 24, 24, 28, 28, 26, 26, 26, 26, 28, 28, 28, 28, 28, 28, 28, 28, 28, 28, 28, 28, 28, 28, 28, 28, 28, 28, 28>>,
     <<13, 22, 18, 26, 18, 24, 18, 22, 20, 24, 28, 26, 24, 20, 30, 24, 28, 28, 26, 30, 28, 30, 30, 30, 30, 28, 30, 30, 30, 30, 30, 30, 30, 30, 30, 30, 30, 30, 30, 30>>,
     <<17, 28, 22, 16, 22, 28, 26, 26, 24, 28, 24, 28, 22, 24, 24, 30, 28, 28, 26, 28, 30, 24, 30, 30, 30, 30, 30, 30, 30, 30, 30, 30, 30, 30, 30, 30, 30, 30, 30, 30>> >>

numErrorCorrectionBlocks ==
  << <<1, 1, 1, 1, 1, 2, 2, 2, 2, 4, 4, 4, 4, 4, 6, 6, 6, 6, 7, 8, 8, 9, 9, 10, 12, 12, 12, 13, 14, 15, 16, 17, 18, 19, 19, 20, 21, 22, 24, 25>>,
     <<1, 1, 1, 2, 2, 4, 4, 4, 5, 5, 5, 8, 9, 9, 10, 10, 11, 13, 14, 16, 17, 17, 18, 20, 21, 23, 25, 26, 28, 29, 31, 33, 35, 37, 38, 40, 43, 45, 47, 49>>,
     <<1, 1, 2, 2, 4, 4, 6, 6, 8, 8, 8, 10, 12, 16, 12, 17, 16, 18, 21, 20, 23, 23, 25, 27, 29, 34, 34, 35, 38, 40, 43, 45, 48, 51, 53, 56, 59, 62, 65, 68>>,
     <<1, 1, 2, 4, 4, 4, 5, 6, 8, 8, 11, 11, 16, 16, 18, 16, 19, 21, 25, 25, 25, 34, 30, 32, 35, 37, 40, 42, 45, 48, 51, 54, 57, 60, 63, 66, 70, 74, 77, 81>> >>

\* init(): the number of data modules of a version, function modules excluded.
numRawDataModules(v) ==
  LET base == (16 * v + 128) * v + 64
      numAlign == v \div 7 + 2
      align == IF v >= 2 THEN (25 * numAlign - 10) * numAlign - 55 ELSE 0
      vinfo == IF v >= 7 THEN 36 ELSE 0
  IN  base - align - vinfo

\* init(): the number of 8-bit data codewords of a level and version.
numDataCodewords(e, v) ==
  numRawDataModules(v) \div 8
    - eccCodeWordsPerBlock[e + 1][v] * numErrorCorrectionBlocks[e + 1][v]

(***************************************************************************)
(* Modes (mode.go).                                                        *)
(***************************************************************************)
Numeric == [modeBits |-> 1, numBits |-> <<10, 12, 14>>]
Alphanumeric == [modeBits |-> 2, numBits |-> <<9, 11, 13>>]
Byte == [modeBits |-> 4, numBits |-> <<8, 16, 16>>]
kanji == [modeBits |-> 8, numBits |-> <<8, 10, 12>>]
ECI == [modeBits |-> 7, numBits |-> <<0, 0, 0>>]

Modes == {Numeric, Alphanumeric, Byte, kanji, ECI}

\* The width of the character count field of mode m at a version.
numCharCountBitsOff(m, version) == m.numBits[(version + 6) \div 17 + 1]

numCharCountBits(m, version) == m.numBits[(version + 7) \div 17 + 1]

\* 1<<n
Pow2(n) == 2 ^ n

(***************************************************************************)
(* getTotalBits (qrsegment.go).  The function reads of a segment its Mode, *)
(* its NumChars and len(Data) only, so a segment enters it as the record   *)
(* [Mode, NumChars, DataLen].  The int64 sum is exact; "result > MaxInt32" *)
(* is evaluated as "previous > MaxInt32 - term", which is the same         *)
(* comparison over the integers and keeps every value within 32 bits.      *)
(***************************************************************************)
RECURSIVE getTotalBitsLoop(_, _, _, _)
getTotalBitsLoop(ss, version, i, res) ==
  IF i > Len(ss) THEN res
  ELSE LET seg == ss[i]
           ccBits == numCharCountBits(seg.Mode, version)
           term == 4 + ccBits + seg.DataLen
       IN  IF seg.NumChars >= Pow2(ccBits) THEN -1
           ELSE IF res > MaxInt32 - term THEN -1
           ELSE getTotalBitsLoop(ss, version, i + 1, res + term)

getTotalBits(ss, version) == getTotalBitsLoop(ss, version, 1, 0)

(***************************************************************************)
(* Options (segmentencoder.go).  An option is a function that updates the  *)
(* segmentEncoder; it is modelled as a record naming the option and its    *)
(* argument (a boolean argument as 0 or 1), and applyOption is the call    *)
(* o(&s).                                                                  *)
(***************************************************************************)
WithAutoMask == [opt |-> "WithAutoMask", arg |-> 0]
WithBoostECL(boost) == [opt |-> "WithBoostECL", arg |-> bToI(boost)]
WithMask(mask) == [opt |-> "WithMask", arg |-> mask]
WithMaxVersion(version) == [opt |-> "WithMaxVersion", arg |-> version]
WithMinVersion(version) == [opt |-> "WithMinVersion", arg |-> version]

applyOption(s, o) ==
  CASE o.opt = "WithAutoMask" -> [s EXCEPT !.mask = -1]
    [] o.opt = "WithBoostECL" -> [s EXCEPT !.boostECL = (o.arg = 1)]
    [] o.opt = "WithMask" -> [s EXCEPT !.mask = o.arg]
    [] o.opt = "WithMaxVersion" -> [s EXCEPT !.minVersion = o.arg]
    [] o.opt = "WithMinVersion" -> [s EXCEPT !.minVersion = o.arg]

\* EncodeSegments, lines 58-63: the encoder before any option is applied.
defaultEncoder ==
  [boostECL |-> TRUE, mask |-> -1, maxVersion |-> 40, minVersion |-> 1]

\* EncodeSegments, lines 64-66: the options applied in the order given.
RECURSIVE applyOptions(_, _, _)
applyOptions(s, opts, i) ==
  IF i > Len(opts) THEN s ELSE applyOptions(applyOption(s, opts[i]), opts, i + 1)

\* EncodeSegments, line 68: the version bounds are rejected.
invalidVersions(s) ==
  s.minVersion < MinVersion \/ MaxVersion < s.maxVersion \/ s.maxVersion < s.minVersion

\* EncodeSegments, line 72: the mask is rejected.
maskOutOfRangeNoAuto(s) == s.mask < 0 \/ s.mask > 7

maskOutOfRange(s) == s.mask < -1 \/ s.mask > 7

(***************************************************************************)
(* EncodeSegments, lines 76-92: the scan for the version.  It returns the  *)
(* version it stops at, the bits needed there, the capacity there, and     *)
(* whether it stopped by accepting the version.                            *)
(***************************************************************************)
\* line 82, without the test for the sentinel
versionSuitableNoSentinel(dataUsedBits, dataCapacityBits) ==
  dataUsedBits <= dataCapacityBits

\* line 82
versionSuitable(dataUsedBits, dataCapacityBits) ==
  dataUsedBits # -1 /\ dataUsedBits <= dataCapacityBits

\* lines 78-91: the pass of the loop for a version; stopped says that an
\* earlier pass left the loop, by break or by return
tryVersion(st, ss, e, version) ==
  IF st.stopped THEN st
  ELSE LET dataCapacityBits == numDataCodewords(e, version) * 8
           dataUsedBits == getTotalBits(ss, version)
       IN  [stopped |-> versionSuitable(dataUsedBits, dataCapacityBits)
                          \/ version >= MaxVersion,
            found |-> versionSuitable(dataUsedBits, dataCapacityBits),
            version |-> version,
            dataUsedBits |-> dataUsedBits,
            dataCapacityBits |-> dataCapacityBits]

findVersion(ss, e, start) ==
  forRange(LAMBDA st, version : tryVersion(st, ss, e, version),
           [stopped |-> FALSE, found |-> FALSE, version |-> start,
            dataUsedBits |-> 0, dataCapacityBits |-> 0],
           start, MaxVersion + 1)

(***************************************************************************)
(* EncodeSegments, lines 98-103: the level is raised while the data fits.  *)
(***************************************************************************)
\* line 100, with the fit forgotten
boostStepNoFit(boost, e, newEcl, dataUsedBits, version) ==
  IF boost THEN newEcl ELSE e

\* line 100, raising the level at most one step above the request
boostStepOnce(boost, e, newEcl, dataUsedBits, version) ==
  IF boost /\ newEcl <= Medium /\ dataUsedBits <= numDataCodewords(newEcl, version) * 8
  THEN newEcl ELSE e

\* lines 100-102: one pass of the loop
boostStep(boost, e, newEcl, dataUsedBits, version) ==
  IF boost /\ dataUsedBits <= numDataCodewords(newEcl, version) * 8
  THEN newEcl ELSE e

RECURSIVE boostLoop(_, _, _, _, _)
boostLoop(boost, e, newEcl, dataUsedBits, version) ==
  IF newEcl > High THEN e
  ELSE boostLoop(boost, boostStep(boost, e, newEcl, dataUsedBits, version),
                 newEcl + 1, dataUsedBits, version)

(***************************************************************************)
(* EncodeSegments, lines 57-103: what the call has decided when it starts  *)
(* to build the symbol.  err is "none" or the error returned; Version and  *)
(* ErrorCorrectionLevel are the fields the symbol is created with at lines *)
(* 143-146 (no later line assigns them); Mask is the mask the options ask  *)
(* for.  After an error the fields of the symbol are 0: no symbol is       *)
(* returned.                                                               *)
(***************************************************************************)
ErrVersions == "invalid segment versions"
ErrMask == "mask value out of range"
ErrCapacity == "data length = %d bits, max capacity = %d bits"
ErrTooLong == "data too long"

planError(msg, used, cap) ==
  [err |-> msg, Version |-> 0, ErrorCorrectionLevel |-> 0, mask |-> 0,
   dataUsedBits |-> used, dataCapacityBits |-> cap]

planSegments(ss, e, opts) ==
  LET s == applyOptions(defaultEncoder, opts, 1)
  IN  IF invalidVersions(s) THEN planError(ErrVersions, 0, 0)
      ELSE IF maskOutOfRange(s) THEN planError(ErrMask, 0, 0)
      ELSE LET f == findVersion(ss, e, MinVersion)
           IN  IF ~f.found
               THEN IF f.dataUsedBits # -1
                    THEN planError(ErrCapacity, f.dataUsedBits, f.dataCapacityBits)
                    ELSE planError(ErrTooLong, -1, 0)
               ELSE [err |-> "none",
                     Version |-> f.version,
                     ErrorCorrectionLevel |->
                       boostLoop(s.boostECL, e, Medium, f.dataUsedBits, f.version),
                     mask |-> s.mask,
                     dataUsedBits |-> f.dataUsedBits,
                     dataCapacityBits |-> f.dataCapacityBits]

(***************************************************************************)
(* Inputs.                                                                 *)
(***************************************************************************)
RECURSIVE SeqsUpTo(_, _)
SeqsUpTo(S, n) ==
  IF n = 0 THEN {<<>>}
  ELSE LET shorter == SeqsUpTo(S, n - 1)
       IN  shorter \cup {Append(q, x) : q \in shorter, x \in S}

\* Segments by their lengths: a byte one that fits version 1 at Low and
\* Medium only; a byte one whose count needs the 16-bit field of versions 10
\* and up; an alphanumeric one whose count needs the 13-bit field of versions
\* 27 and up and that fits no version at High; and one of nearly 2^31 bits,
\* two of which overflow the 32-bit total.  The empty list fits version 1 at
\* every level.
PlanSegChoices ==
  { [Mode |-> Byte, NumChars |-> 14, DataLen |-> 112],
    [Mode |-> Byte, NumChars |-> 300, DataLen |-> 2400],
    [Mode |-> Alphanumeric, NumChars |-> 4000, DataLen |-> 11800],
    [Mode |-> Byte, NumChars |-> 0, DataLen |-> 2147483600] }

PlanOptChoices ==
  { WithMinVersion(0), WithMinVersion(5), WithMaxVersion(3), WithMaxVersion(41),
    WithBoostECL(FALSE) }

NoResult == planError("pending", 0, 0)

\* No abort; no symbol; no masking done.
NoPanic == "none"

NilQRCode ==
  [Version |-> 0, Size |-> 0, ErrorCorrectionLevel |-> 0, Mask |-> 0,
   Modules |-> <<>>, IsFunction |-> <<>>]

NoMasking == [unmasked |-> NilQRCode, trials |-> <<>>]

(***************************************************************************)
(* SpecPlan: one call of EncodeSegments, up to the choice of version and   *)
(* level.                                                                  *)
(***************************************************************************)
\* The variables of getTotalBits when another operation is modelled.
bitsUnused == tbVersion = 0 /\ tbResult = 0

\* The variables of EncodeSegments, but segs, when another operation is modelled.
encodeUnused ==
  /\ ecl = Low /\ options = <<>> /\ result = NoResult
  /\ qr = NilQRCode /\ panic = NoPanic /\ masking = NoMasking

\* The variables of the Reed-Solomon functions when another operation is modelled.
rsUnused == rsData = <<>> /\ rsDegree = 0 /\ rsRemainder = <<>>

\* The variables of the Make functions when another operation is modelled.
NoMade == [fn |-> "none", segs |-> <<>>, err |-> "none", panic |-> "none"]

makeUnused == text = <<>> /\ assignValue = 0 /\ made = NoMade

\* The variables of getAlignmentPatternPositions when another operation is
\* modelled.
NoPositions == [from |-> "none", pos |-> <<>>]

alignUnused == alignVersion = 0 /\ alignResult = NoPositions

\* The locals bb and dataCodeWords of EncodeSegments when they are not
\* observed.
dataUnused == bitBuffer = <<>> /\ dataBytes = <<>>

\* The variables of addECCAndInterleave when another operation is modelled.
NoBlocks == [bytes |-> <<>>, panic |-> "none", blocks |-> <<>>, written |-> 0]

blocksUnused == eccVersion = 0 /\ eccData = <<>> /\ eccResult = NoBlocks

\* The variables of the construction of a symbol when another operation is
\* modelled.
NoTrace == [trace |-> <<>>, i |-> 0, n |-> 0, trials |-> <<>>]

drawUnused ==
  /\ sym = NilQRCode /\ symData = <<>> /\ symTrace = NoTrace
  /\ symPatterned = NilQRCode /\ symDrawn = NilQRCode /\ symMask = 0

\* The variables of the field product when another operation is modelled.
multiplyUnused == mulX = 0 /\ mulY = 0 /\ mulResult = -1

\* The variables of the balance term when another operation is modelled.
balanceUnused == balVersion = 0 /\ balBlack = 0 /\ balResult = 0

\* The variables of the interleaved calls when another operation is modelled.
sharedUnused == static = <<>> /\ symbols = <<>> /\ calls = <<>>

InitPlan ==
  /\ pc = "idle"
  /\ segs = <<>>
  /\ ecl = Low
  /\ options = <<>>
  /\ result = NoResult
  /\ qr = NilQRCode /\ panic = NoPanic /\ masking = NoMasking
  /\ bitsUnused
  /\ rsUnused
  /\ makeUnused
  /\ alignUnused
  /\ sharedUnused
  /\ dataUnused
  /\ blocksUnused
  /\ drawUnused
  /\ balanceUnused
  /\ multiplyUnused

EncodeSegmentsPlan ==
  /\ pc = "idle"
  /\ \E ss \in SeqsUpTo(PlanSegChoices, MaxSegs), e \in Levels,
        opts \in SeqsUpTo(PlanOptChoices, MaxOpts) :
       /\ segs' = ss
       /\ ecl' = e
       /\ options' = opts
       /\ result' = planSegments(ss, e, opts)
  /\ pc' = "returned"
  /\ UNCHANGED <<tbVersion, tbResult, rsData, rsDegree, rsRemainder, qr, panic, masking,
               text, assignValue, made,
               alignVersion, alignResult,
               static, symbols, calls,
               bitBuffer, dataBytes,
               eccVersion, eccData, eccResult,
               sym, symData, symTrace, symPatterned, symDrawn, symMask,
               balVersion, balBlack, balResult,
               mulX, mulY, mulResult>>

NextPlan == EncodeSegmentsPlan

SpecPlan == InitPlan /\ [][NextPlan]_vars

(***************************************************************************)
(* SpecBits: one call of getTotalBits.                                     *)
(***************************************************************************)
\* Segments by their lengths, with character counts at both sides of the
\* limits 2^8, 2^10 and 2^16 of the count fields, an ECI segment, and a
\* segment of nearly 2^31 bits.
BitsSegChoices ==
  { [Mode |-> ECI, NumChars |-> 0, DataLen |-> 8],
    [Mode |-> Numeric, NumChars |-> 1023, DataLen |-> 3410],
    [Mode |-> Numeric, NumChars |-> 1024, DataLen |-> 3414],
    [Mode |-> Alphanumeric, NumChars |-> 511, DataLen |-> 2811],
    [Mode |-> kanji, NumChars |-> 255, DataLen |-> 3315],
    [Mode |-> kanji, NumChars |-> 256, DataLen |-> 3328],
    [Mode |-> Byte, NumChars |-> 4093, DataLen |-> 32744],
    [Mode |-> Byte, NumChars |-> 65536, DataLen |-> 524288],
    [Mode |-> Byte, NumChars |-> 0, DataLen |-> 2147483600] }

InitBits ==
  /\ pc = "idle"
  /\ segs = <<>>
  /\ encodeUnused
  /\ bitsUnused
  /\ rsUnused
  /\ makeUnused
  /\ alignUnused
  /\ sharedUnused
  /\ dataUnused
  /\ blocksUnused
  /\ drawUnused
  /\ balanceUnused
  /\ multiplyUnused

GetTotalBits ==
  /\ pc = "idle"
  /\ \E ss \in SeqsUpTo(BitsSegChoices, MaxSegs), v \in Versions :
       /\ segs' = ss
       /\ tbVersion' = v
       /\ tbResult' = getTotalBits(ss, v)
  /\ pc' = "returned"
  /\ UNCHANGED <<ecl, options, result, rsData, rsDegree, rsRemainder, qr, panic, masking,
               text, assignValue, made,
               alignVersion, alignResult,
               static, symbols, calls,
               bitBuffer, dataBytes,
               eccVersion, eccData, eccResult,
               sym, symData, symTrace, symPatterned, symDrawn, symMask,
               balVersion, balBlack, balResult,
               mulX, mulY, mulResult>>

NextBits == GetTotalBits

SpecBits == InitBits /\ [][NextBits]_vars

(***************************************************************************)
(* Reed-Solomon coder (part_000, lines 655-715).  Bytes are numbers in     *)
(* 0..255.                                                                 *)
(***************************************************************************)
\* The pass with 0x11B in the place of 0x11D.
multiplyStepOtherModulus(z, x, y, i) ==
  LET z1 == Xor(z * 2, (z \div 128) * 283)
  IN  Xor(z1, ((y \div (2 ^ i)) % 2) * x)

\* reedSolomonMultiply, lines 693-696: one pass of the loop, for bit i of y.
multiplyStep(z, x, y, i) ==
  LET z1 == Xor(z * 2, (z \div 128) * 285)
  IN  Xor(z1, ((y \div (2 ^ i)) % 2) * x)

reedSolomonMultiply(x, y) ==
  CASE evaluated(x) /\ evaluated(y) ->
    forRange(LAMBDA z, k : multiplyStep(z, x, y, 7 - k), 0, 0, 8) % 256

zeroBytes(n) == [i \in 1..n |-> 0]

\* reedSolomonComputeDivisor, lines 676-681: the product by (x - root).  The
\* loop updates in place from the left, so result[j+1] is still the old value
\* when result[j] is computed.
divisorStep(res, root) ==
  [j \in 1..Len(res) |->
     Xor(reedSolomonMultiply(res[j], root), IF j < Len(res) THEN res[j + 1] ELSE 0)]

\* The code aborts for a degree outside 1..255; the model calls it within.
reedSolomonComputeDivisor(degree) ==
  forRange(LAMBDA st, i : [result |-> divisorStep(st.result, st.root),
                           root |-> reedSolomonMultiply(st.root, 2)],
           [result |-> [i \in 1..degree |-> IF i = degree THEN 1 ELSE 0],
            root |-> 1],
           0, degree).result

\* reedSolomonComputeRemainder, lines 706-711, with the shift forgotten
remainderStepNoShift(res, divisor, b) ==
  LET factor == Xor(b, res[1])
  IN  [i \in 1..Len(res) |-> Xor(res[i], reedSolomonMultiply(divisor[i], factor))]

\* reedSolomonComputeRemainder, lines 706-711: one data byte
remainderStep(res, divisor, b) ==
  LET factor == Xor(b, res[1])
      shifted == [i \in 1..Len(res) |-> IF i < Len(res) THEN res[i + 1] ELSE 0]
  IN  [i \in 1..Len(res) |-> Xor(shifted[i], reedSolomonMultiply(divisor[i], factor))]

reedSolomonComputeRemainder(data, divisor) ==
  CASE evaluated(data) /\ evaluated(divisor) ->
    forRange(LAMBDA res, k : remainderStep(res, divisor, data[k + 1]),
             zeroBytes(Len(divisor)), 0, Len(data))

(***************************************************************************)
(* SpecRS: one remainder computed under the generator of a degree.         *)
(***************************************************************************)
RSByteChoices == {0, 1, 142, 255}

InitRS ==
  /\ pc = "idle"
  /\ segs = <<>>
  /\ encodeUnused
  /\ bitsUnused
  /\ rsUnused
  /\ makeUnused
  /\ alignUnused
  /\ sharedUnused
  /\ dataUnused
  /\ blocksUnused
  /\ drawUnused
  /\ balanceUnused
  /\ multiplyUnused

ReedSolomon ==
  /\ pc = "idle"
  /\ \E d \in 1..MaxDegree, data \in SeqsUpTo(RSByteChoices, MaxDataLen) :
       /\ rsDegree' = d
       /\ rsData' = data
       /\ rsRemainder' = reedSolomonComputeRemainder(data, reedSolomonComputeDivisor(d))
  /\ pc' = "returned"
  /\ UNCHANGED <<segs, ecl, options, result, tbVersion, tbResult, qr, panic, masking,
               text, assignValue, made,
               alignVersion, alignResult,
               static, symbols, calls,
               bitBuffer, dataBytes,
               eccVersion, eccData, eccResult,
               sym, symData, symTrace, symPatterned, symDrawn, symMask,
               balVersion, balBlack, balResult,
               mulX, mulY, mulResult>>

NextRS == ReedSolomon

SpecRS == InitRS /\ [][NextRS]_vars

(***************************************************************************)
(* Bits and the bit buffer (package.go, bitbuffer.go).  A call that aborts *)
(* leaves the name of the abort in the field panic of what it was working  *)
(* on, and every later step leaves that value alone: nothing runs after an *)
(* abort.                                                                  *)
(***************************************************************************)
bToModule(b) == IF b THEN 1 ELSE 0
getBit(x, i) == (x \div (2 ^ i)) % 2
getBitAsBool(x, i) == getBit(x, i) = 1

emptyBuffer == [bits |-> <<>>, panic |-> NoPanic]

appendBits(bb, value, length) ==
  IF bb.panic # NoPanic THEN bb
  ELSE IF length > 31 \/ value \div (2 ^ length) # 0
  THEN [bb EXCEPT !.panic = "value out of range"]
  ELSE [bb EXCEPT !.bits = @ \o [k \in 1..length |-> getBit(value, length - k)]]

(***************************************************************************)
(* MakeBytes (qrsegment.go).                                               *)
(***************************************************************************)
MakeBytes(data) ==
  [Mode |-> Byte,
   NumChars |-> Len(data),
   Data |-> forRange(LAMBDA bb, k : appendBits(bb, data[k + 1], 8),
                     emptyBuffer, 0, Len(data)).bits]

\* What getTotalBits reads of the segments.
segmentLengths(ss) ==
  [i \in 1..Len(ss) |->
     [Mode |-> ss[i].Mode, NumChars |-> ss[i].NumChars, DataLen |-> Len(ss[i].Data)]]

(***************************************************************************)
(* EncodeSegments, lines 105-140: the data bit string and its bytes.       *)
(***************************************************************************)
\* lines 108-110: one segment
appendSegment(bb, seg, version) ==
  after(appendBits(appendBits(bb, seg.Mode.modeBits, 4), seg.NumChars,
                   numCharCountBits(seg.Mode, version)),
        LAMBDA bb2 : IF bb2.panic # NoPanic THEN bb2
                     ELSE [bb2 EXCEPT !.bits = @ \o seg.Data])

\* One pass that appends the pad byte and keeps it.
padStepSameByte(st, dataCapacityBits) ==
  IF st.bb.panic # NoPanic \/ ~(Len(st.bb.bits) < dataCapacityBits) THEN st
  ELSE [bb |-> appendBits(st.bb, st.padByte, 8), padByte |-> st.padByte]

\* lines 128-130: one pass of the loop, which ends when the capacity is
\* reached; the pad byte alternates, 0xEC first
padStep(st, dataCapacityBits) ==
  IF st.bb.panic # NoPanic \/ ~(Len(st.bb.bits) < dataCapacityBits) THEN st
  ELSE [bb |-> appendBits(st.bb, st.padByte, 8),
        padByte |-> Xor(st.padByte, Xor(236, 17))]

SizeError == "incorrect data size calculation"

\* A terminator of four bits whatever room is left.
terminatorLengthFour(dataCapacityBits, length) == 4

\* line 121: the length of the terminator
terminatorLength(dataCapacityBits, length) == min(4, dataCapacityBits - length)

\* lines 121-130: the terminator, the bits up to a whole byte, the pad
\* bytes.  The loop of lines 128-130 makes at most one pass for each byte of
\* the capacity.
padBits(bb, dataCapacityBits) ==
  after(appendBits(bb, 0, terminatorLength(dataCapacityBits, Len(bb.bits))),
        LAMBDA t :
          after(appendBits(t, 0, (8 - (Len(t.bits) % 8)) % 8),
                LAMBDA p :
                  IF p.panic # NoPanic THEN p
                  ELSE IF Len(p.bits) % 8 # 0 THEN [p EXCEPT !.panic = SizeError]
                  ELSE forRange(LAMBDA st, k : padStep(st, dataCapacityBits),
                                [bb |-> p, padByte |-> 236],
                                0, dataCapacityBits \div 8).bb))

\* The bit string of lines 105-130, for the version and final level chosen.
dataBits(ss, version, level, dataUsedBits) ==
  after(forRange(LAMBDA b, k : appendSegment(b, ss[k + 1], version),
                 emptyBuffer, 0, Len(ss)),
        LAMBDA bb :
          IF bb.panic # NoPanic THEN bb
          ELSE IF Len(bb.bits) # dataUsedBits THEN [bb EXCEPT !.panic = SizeError]
          ELSE IF Len(bb.bits) > numDataCodewords(level, version) * 8
          THEN [bb EXCEPT !.panic = SizeError]
          ELSE padBits(bb, numDataCodewords(level, version) * 8))

\* lines 133-140: dataCodeWords[i>>3] |= bb[i] << (7 - i&7), byte by byte
packBits(bits) ==
  [n \in 1..(Len(bits) \div 8) |->
     forRange(LAMBDA acc, i : Or(acc, bits[i + 1] * (2 ^ (7 - (i % 8)))),
              0, (n - 1) * 8, n * 8)]

(***************************************************************************)
(* The symbol (part_000).  Modules and IsFunction are indexed [y][x] from  *)
(* 0, as in the code.                                                      *)
(***************************************************************************)
newQRCode(version, level) ==
  [Version |-> version,
   Size |-> version * 4 + 17,
   ErrorCorrectionLevel |-> level,
   Mask |-> 0,
   Modules |-> [y \in 0..(version * 4 + 16) |-> [x \in 0..(version * 4 + 16) |-> 0]],
   IsFunction |-> [y \in 0..(version * 4 + 16) |-> [x \in 0..(version * 4 + 16) |-> FALSE]],
   panic |-> NoPanic]

setFunctionModule(q, x, y, isBlack) ==
  [q EXCEPT !.Modules[y][x] = bToModule(isBlack), !.IsFunction[y][x] = TRUE]

\* ECL.formatBits (part_001, lines 37-50)
formatBits(e) ==
  CASE e = Low -> 1
    [] e = Medium -> 0
    [] e = Quartile -> 3
    [] e = High -> 2

\* drawFormatBits, lines 391-396: the 15-bit word
formatWord(level, mask) ==
  after(Or(formatBits(level) * 8, mask),
        LAMBDA data :
          Xor(Or(data * 1024,
                 forRange(LAMBDA rem, i : Xor(rem * 2, (rem \div 512) * 1335),
                          data, 0, 10)),
              21522))

\* drawFormatBits, lines 401-419: write k of the thirty-one, in the code's
\* order
formatCell(size, bits, k) ==
  IF k <= 5 THEN [x |-> 8, y |-> k, bit |-> getBitAsBool(bits, k)]
  ELSE IF k = 6 THEN [x |-> 8, y |-> 7, bit |-> getBitAsBool(bits, 6)]
  ELSE IF k = 7 THEN [x |-> 8, y |-> 8, bit |-> getBitAsBool(bits, 7)]
  ELSE IF k = 8 THEN [x |-> 7, y |-> 8, bit |-> getBitAsBool(bits, 8)]
  ELSE IF k <= 14 THEN [x |-> 14 - k, y |-> 8, bit |-> getBitAsBool(bits, k)]
  ELSE IF k <= 22
  THEN [x |-> size - 1 - (k - 15), y |-> 8, bit |-> getBitAsBool(bits, k - 15)]
  ELSE IF k <= 29
  THEN [x |-> 8, y |-> size - 15 + (k - 15), bit |-> getBitAsBool(bits, k - 15)]
  ELSE [x |-> 8, y |-> size - 8, bit |-> TRUE]

drawFormatCell(q, c) == setFunctionModule(q, c.x, c.y, c.bit)

drawFormatBits(q, mask) ==
  IF q.panic # NoPanic THEN q
  ELSE after(formatWord(q.ErrorCorrectionLevel, mask),
             LAMBDA bits :
               IF bits \div 32768 # 0
               THEN [q EXCEPT !.panic = "incorrect format bits calculation"]
               ELSE forRange(LAMBDA s, k : drawFormatCell(s, formatCell(s.Size, bits, k)),
                             q, 0, 31))

\* drawVersion, lines 459-464: the 18-bit word
versionWord(version) ==
  Or(version * 4096,
     forRange(LAMBDA rem, i : Xor(rem * 2, (rem \div 2048) * 7973), version, 0, 12))

\* drawVersion, lines 472-479: bit i
drawVersionBit(q, bit, a, b) ==
  setFunctionModule(setFunctionModule(q, a, b, bit), b, a, bit)

drawVersion(q) ==
  IF q.panic # NoPanic \/ q.Version < 7 THEN q
  ELSE after(versionWord(q.Version),
             LAMBDA bits :
               IF bits \div 262144 # 0
               THEN [q EXCEPT !.panic = "incorrect version calculation"]
               ELSE forRange(LAMBDA s, i : drawVersionBit(s, getBitAsBool(bits, i),
                                                          s.Size - 11 + (i % 3), i \div 3),
                             q, 0, 18))

\* drawFinderPattern, lines 376-381: the module at (x + dx, y + dy)
drawFinderCell(q, xx, yy, dist) ==
  IF 0 <= xx /\ xx < q.Size /\ 0 <= yy /\ yy < q.Size
  THEN setFunctionModule(q, xx, yy, dist # 2 /\ dist # 4)
  ELSE q

\* drawFinderPattern: pass k = (dy + 4) * 9 + (dx + 4) of the two loops
drawFinderPattern(q, x, y) ==
  forRange(LAMBDA s, k : drawFinderCell(s, x + (k % 9) - 4, y + (k \div 9) - 4,
                                        max(abs((k % 9) - 4), abs((k \div 9) - 4))),
           q, 0, 81)

\* drawAlignmentPattern: pass k = (dy + 2) * 5 + (dx + 2) of the two loops
drawAlignmentPattern(q, x, y) ==
  forRange(LAMBDA s, k : setFunctionModule(s, x + (k % 5) - 2, y + (k \div 5) - 2,
                                           max(abs((k % 5) - 2), abs((k \div 5) - 2)) # 1),
           q, 0, 25)

\* getAlignmentPatternPositions, without the case of version 32
getAlignmentPatternPositionsNoCase(version) ==
  IF version = 1 THEN <<>>
  ELSE LET numAlign == (version \div 7) + 2
           step == ((version * 4 + numAlign * 2 + 1) \div (numAlign * 2 - 2)) * 2
       IN  [i \in 1..numAlign |->
              IF i = 1 THEN 6
              ELSE (version * 4 + 17 - 7 - (numAlign - i) * step) % 256]
\* getAlignmentPatternPositions; position i of the Go slice is element i + 1.
\* The positions are stored as bytes.
getAlignmentPatternPositions(version) ==
  IF version = 1 THEN <<>>
  ELSE LET numAlign == (version \div 7) + 2
           step == IF version = 32 THEN 26
                   ELSE ((version * 4 + numAlign * 2 + 1) \div (numAlign * 2 - 2)) * 2
       IN  [i \in 1..numAlign |->
              IF i = 1 THEN 6
              ELSE (version * 4 + 17 - 7 - (numAlign - i) * step) % 256]

\* package.go, lines 101-105: the positions of every version, stored at
\* start-up; entry 0 of the Go array is never assigned.
alignmentPatternPositions ==
  [v \in 0..MaxVersion |-> IF v = 0 THEN <<>> ELSE getAlignmentPatternPositions(v)]

\* drawFunctionPatterns, lines 427-430: pass i
drawTiming(q, i) ==
  setFunctionModule(setFunctionModule(q, 6, i, i % 2 = 0), i, 6, i % 2 = 0)

\* A pass that draws a pattern at the three corners too.
drawAlignmentAtCorners(q, alignPatPos, i, j) ==
  drawAlignmentPattern(q, alignPatPos[i + 1], alignPatPos[j + 1])

\* drawFunctionPatterns, lines 441-448: the pass for positions i and j
drawAlignmentAt(q, alignPatPos, i, j) ==
  IF ~((i = 0 /\ j = 0) \/ (i = 0 /\ j = Len(alignPatPos) - 1)
       \/ (i = Len(alignPatPos) - 1 /\ j = 0))
  THEN drawAlignmentPattern(q, alignPatPos[i + 1], alignPatPos[j + 1])
  ELSE q

\* drawFunctionPatterns, lines 438-448
drawAlignmentPatterns(q, alignPatPos) ==
  forRange(LAMBDA s, k : drawAlignmentAt(s, alignPatPos, k \div Len(alignPatPos),
                                         k % Len(alignPatPos)),
           q, 0, Len(alignPatPos) * Len(alignPatPos))

\* drawFunctionPatterns, lines 425-453, reading the tables init filled from
\* the record tables (line 439 reads alignmentPatternPositions[q.Version]).
drawFunctionPatternsWith(q, tables) ==
  after(forRange(LAMBDA s, i : drawTiming(s, i), q, 0, q.Size),
        LAMBDA q1 :
          after(drawFinderPattern(drawFinderPattern(drawFinderPattern(q1, 3, 3),
                                                    q.Size - 4, 3),
                                  3, q.Size - 4),
                LAMBDA q2 :
                  after(drawAlignmentPatterns(q2, tables.alignmentPatternPositions[q.Version]),
                        LAMBDA q3 : drawVersion(drawFormatBits(q3, 0)))))


(***************************************************************************)
(* addECCAndInterleave, lines 173-212.  reedSolomonDivisors[n] is          *)
(* reedSolomonComputeDivisor(n), stored at start-up (package.go, lines     *)
(* 86-99).  Beside the bytes it returns, the value keeps the blocks of     *)
(* lines 186-196 and the number of writes result[k] = ... of line 205.     *)
(***************************************************************************)
\* package.go, lines 86-99: the divisor of every degree in
\* eccCodeWordsPerBlock, computed once at start-up.
reedSolomonDivisors ==
  [w \in {eccCodeWordsPerBlock[e + 1][v] : e \in Levels, v \in Versions} |->
     reedSolomonComputeDivisor(w)]

\* Indexing a Go map: a missing key gives the zero value, a nil slice.
mapIndex(m, key) == IF key \in DOMAIN m THEN m[key] ELSE <<>>

\* package.go, lines 20-53: the tables that init fills (lines 54-106), as
\* they stand when init has returned.
staticTables ==
  [numRawDataModules |-> [v \in Versions |-> numRawDataModules(v)],
   numDataCodewords |-> [e \in Levels |-> [v \in Versions |-> numDataCodewords(e, v)]],
   alignmentPatternPositions |-> alignmentPatternPositions,
   reedSolomonDivisors |-> reedSolomonDivisors]

\* lines 189-195: the block made of the bytes of data from offset k
eccBlock(data, k, datLen, blockLen, rsDiv) ==
  after(SubSeq(data, k + 1, k + datLen),
        LAMBDA dat :
          after(reedSolomonComputeRemainder(dat, rsDiv),
                LAMBDA ecc :
                  [n \in 1..blockLen |->
                     IF n > blockLen - Len(ecc) THEN ecc[n - (blockLen - Len(ecc))]
                     ELSE IF n <= datLen THEN dat[n]
                     ELSE 0]))

\* A pass that gives every block the data length of a short block.
blocksStepAllShort(st, data, i, numShortBlocks, shortBlockLen, blockECCLen, rsDiv) ==
  LET datLen == shortBlockLen - blockECCLen
  IN  [blocks |-> Append(st.blocks,
                         eccBlock(data, st.k, datLen, shortBlockLen + 1, rsDiv)),
       k |-> st.k + datLen]

\* lines 188-196: pass i of the loop, which carries the blocks and k
blocksStep(st, data, i, numShortBlocks, shortBlockLen, blockECCLen, rsDiv) ==
  LET datLen == shortBlockLen - blockECCLen + bToI(i >= numShortBlocks)
  IN  [blocks |-> Append(st.blocks,
                         eccBlock(data, st.k, datLen, shortBlockLen + 1, rsDiv)),
       k |-> st.k + datLen]

\* A pass that takes byte i of block j whatever the block.
interleaveStepNoSkip(res, blocks, i, j, skipIndex, numShortBlocks) ==
  Append(res, blocks[j + 1][i + 1])

\* lines 202-208: byte i of block j
interleaveStep(res, blocks, i, j, skipIndex, numShortBlocks) ==
  IF i # skipIndex \/ j >= numShortBlocks
  THEN Append(res, blocks[j + 1][i + 1])
  ELSE res

\* addECCAndInterleave, lines 173-212, reading the tables init filled from
\* the record tables (lines 174, 182 and 187).
addECCAndInterleaveWith(q, data, tables) ==
  IF Len(data) # tables.numDataCodewords[q.ErrorCorrectionLevel][q.Version]
  THEN [bytes |-> <<>>, panic |-> "data is not correct length",
        blocks |-> <<>>, written |-> 0]
  ELSE LET numBlocks == numErrorCorrectionBlocks[q.ErrorCorrectionLevel + 1][q.Version]
           blockECCLen == eccCodeWordsPerBlock[q.ErrorCorrectionLevel + 1][q.Version]
           rawCodeWords == tables.numRawDataModules[q.Version] \div 8
           numShortBlocks == numBlocks - (rawCodeWords % numBlocks)
           shortBlockLen == rawCodeWords \div numBlocks
       IN  after(mapIndex(tables.reedSolomonDivisors, blockECCLen),
                 LAMBDA rsDiv :
                   after(forRange(LAMBDA st, i :
                                    blocksStep(st, data, i, numShortBlocks,
                                               shortBlockLen, blockECCLen, rsDiv),
                                  [blocks |-> <<>>, k |-> 0], 0, numBlocks).blocks,
                         LAMBDA blocks :
                           after(forRange(LAMBDA res, n :
                                            interleaveStep(res, blocks, n \div numBlocks,
                                                           n % numBlocks,
                                                           shortBlockLen - blockECCLen,
                                                           numShortBlocks),
                                          <<>>, 0, (shortBlockLen + 1) * numBlocks),
                                 LAMBDA written :
                                   IF Len(written) > rawCodeWords
                                   THEN [bytes |-> <<>>, panic |-> "index out of range",
                                         blocks |-> blocks, written |-> rawCodeWords]
                                   ELSE [bytes |-> [n \in 1..rawCodeWords |->
                                                      IF n <= Len(written)
                                                      THEN written[n] ELSE 0],
                                         panic |-> NoPanic,
                                         blocks |-> blocks,
                                         written |-> Len(written)])))

addECCAndInterleave(q, data) == addECCAndInterleaveWith(q, data, staticTables)

drawFunctionPatterns(q) == drawFunctionPatternsWith(q, staticTables)

(***************************************************************************)
(* drawCodewords, lines 331-369.  The loops carry the symbol, the bit      *)
(* index i and the column right.  Beside them the model keeps, for every   *)
(* cell, the number of the pass of the inner loop that computed its        *)
(* coordinates (visit), and the index of the data bit line 355 wrote to it *)
(* (bit); both are -1 for a cell without one.  n counts the passes.        *)
(***************************************************************************)
NoVisit == [visit |-> -1, bit |-> -1]

\* A pass of the inner loop that writes the bit whatever the flag of the
\* cell.
drawCodewordCellAnyCell(st, data, k) ==
  LET vert == k \div 2
      j == k % 2
      x == st.right - j
      upward == ((st.right + 1) \div 2) % 2 = 0
      y == IF upward THEN st.q.Size - 1 - vert ELSE vert
  IN  IF st.i < Len(data) * 8
      THEN [st EXCEPT !.q.Modules[y][x] =
                         getBit(data[(st.i \div 8) + 1], 7 - (st.i % 8)),
                      !.i = @ + 1,
                      !.trace[y][x] = [visit |-> st.n, bit |-> st.i],
                      !.n = @ + 1]
      ELSE [st EXCEPT !.trace[y][x] = [visit |-> st.n, bit |-> -1],
                      !.n = @ + 1]

\* A pass of the inner loop that scans every strip upward.
drawCodewordCellUpward(st, data, k) ==
  LET vert == k \div 2
      j == k % 2
      x == st.right - j
      y == st.q.Size - 1 - vert
  IN  IF ~st.q.IsFunction[y][x] /\ st.i < Len(data) * 8
      THEN [st EXCEPT !.q.Modules[y][x] =
                         getBit(data[(st.i \div 8) + 1], 7 - (st.i % 8)),
                      !.i = @ + 1,
                      !.trace[y][x] = [visit |-> st.n, bit |-> st.i],
                      !.n = @ + 1]
      ELSE [st EXCEPT !.trace[y][x] = [visit |-> st.n, bit |-> -1],
                      !.n = @ + 1]

\* lines 345-358: the cell k = vert*2 + j of the strip
drawCodewordCell(st, data, k) ==
  LET vert == k \div 2
      j == k % 2
      x == st.right - j
      upward == ((st.right + 1) \div 2) % 2 = 0
      y == IF upward THEN st.q.Size - 1 - vert ELSE vert
  IN  IF ~st.q.IsFunction[y][x] /\ st.i < Len(data) * 8
      THEN [st EXCEPT !.q.Modules[y][x] =
                         getBit(data[(st.i \div 8) + 1], 7 - (st.i % 8)),
                      !.i = @ + 1,
                      !.trace[y][x] = [visit |-> st.n, bit |-> st.i],
                      !.n = @ + 1]
      ELSE [st EXCEPT !.trace[y][x] = [visit |-> st.n, bit |-> -1],
                      !.n = @ + 1]

\* A pass of the outer loop that takes column 6 as any other.
drawStripNoJump(st, data) ==
  IF st.right < 1 THEN st
  ELSE [forRange(LAMBDA s, k : drawCodewordCell(s, data, k),
                 st, 0, 2 * st.q.Size)
          EXCEPT !.right = st.right - 2]

\* lines 339-364: one pass of the outer loop, which ends when right < 1; it
\* makes fewer passes than the symbol has columns
drawStrip(st, data) ==
  IF st.right < 1 THEN st
  ELSE LET r == IF st.right = 6 THEN 5 ELSE st.right
       IN  [forRange(LAMBDA s, k : drawCodewordCell(s, data, k),
                     [st EXCEPT !.right = r], 0, 2 * st.q.Size)
              EXCEPT !.right = r - 2]

\* lines 331-369, with what the loops carried when they ended
drawCodewordsTraced(q, data) ==
  IF q.panic # NoPanic THEN [q |-> q, i |-> 0, right |-> 0, trace |-> <<>>, n |-> 0]
  ELSE IF Len(data) # numRawDataModules(q.Version) \div 8
  THEN [q |-> [q EXCEPT !.panic = "incorrect data length"],
        i |-> 0, right |-> 0, trace |-> <<>>, n |-> 0]
  ELSE after(forRange(LAMBDA s, n : drawStrip(s, data),
                      [q |-> q, i |-> 0, right |-> q.Size - 1,
                       trace |-> [y \in 0..(q.Size - 1) |->
                                    [x \in 0..(q.Size - 1) |-> NoVisit]],
                       n |-> 0],
                      0, q.Size),
             LAMBDA st : IF st.i # Len(data) * 8
                         THEN [st EXCEPT !.q.panic = "incorrect length"]
                         ELSE st)

drawCodewords(q, data) == drawCodewordsTraced(q, data).q

(***************************************************************************)
(* applyMask, lines 289-316.                                               *)
(***************************************************************************)
\* The conditions with the row taken for the column.
maskInvertSwapped(mask, x, y) ==
  CASE mask = 0 -> (x + y) % 2 = 0
    [] mask = 1 -> x % 2 = 0
    [] mask = 2 -> y % 3 = 0
    [] mask = 3 -> (x + y) % 3 = 0
    [] mask = 4 -> ((y \div 3) + (x \div 2)) % 2 = 0
    [] mask = 5 -> ((x * y) % 2) + ((x * y) % 3) = 0
    [] mask = 6 -> (((x * y) % 2) + ((x * y) % 3)) % 2 = 0
    [] mask = 7 -> (((x + y) % 2) + ((x * y) % 3)) % 2 = 0

\* lines 292-311: the switch on the mask
maskInvert(mask, x, y) ==
  CASE mask = 0 -> (x + y) % 2 = 0
    [] mask = 1 -> y % 2 = 0
    [] mask = 2 -> x % 3 = 0
    [] mask = 3 -> (x + y) % 3 = 0
    [] mask = 4 -> ((x \div 3) + (y \div 2)) % 2 = 0
    [] mask = 5 -> ((x * y) % 2) + ((x * y) % 3) = 0
    [] mask = 6 -> (((x * y) % 2) + ((x * y) % 3)) % 2 = 0
    [] mask = 7 -> (((x + y) % 2) + ((x * y) % 3)) % 2 = 0

applyMask(q, mask) ==
  IF q.panic # NoPanic THEN q
  ELSE IF mask \notin 0..7 THEN [q EXCEPT !.panic = "illegal mask value"]
  ELSE [q EXCEPT !.Modules =
          [y \in 0..(q.Size - 1) |->
             [x \in 0..(q.Size - 1) |->
                Xor(q.Modules[y][x],
                    bToI(maskInvert(mask, x, y) /\ ~q.IsFunction[y][x]))]]]

(***************************************************************************)
(* getPenaltyScore and its helpers, lines 484-512 and 542-625.             *)
(***************************************************************************)
penaltyN1 == 3
penaltyN2 == 3
penaltyN3 == 40
penaltyN4 == 10

finderPenaltyAddHistory(size, currentRunLength, runHistory) ==
  LET length == IF runHistory[1] = 0 THEN currentRunLength + size
                ELSE currentRunLength
  IN  <<length>> \o SubSeq(runHistory, 1, 6)

\* finderPenaltyCountPatterns aborts on this history
badRunHistory(size, runHistory) == runHistory[2] > size * 3

finderPenaltyCountPatterns(runHistory) ==
  LET n == runHistory[2]
      core == n > 0 /\ runHistory[3] = n /\ runHistory[4] = n * 3
                /\ runHistory[5] = n /\ runHistory[6] = n
  IN  bToI(core /\ runHistory[1] >= n * 4 /\ runHistory[7] >= n)
        + bToI(core /\ runHistory[7] >= n * 4 /\ runHistory[1] >= n)

\* finderPenaltyTerminateAndCount: the history it counts the patterns of
terminatedHistory(size, runColor, runLength, runHistory) ==
  LET h == IF runColor = 1
           THEN finderPenaltyAddHistory(size, runLength, runHistory)
           ELSE runHistory
      length == IF runColor = 1 THEN 0 ELSE runLength
  IN  finderPenaltyAddHistory(size, length + size, h)

\* Cell b of line a: of row a, or of column a.
lineCell(q, byColumn, a, b) == IF byColumn THEN q.Modules[b][a] ELSE q.Modules[a][b]

\* lines 552-566 (rows) and 578-592 (columns): one cell of a line.  st holds
\* the run, the history, the penalty of the line so far, and whether
\* finderPenaltyCountPatterns aborted.
lineStep(size, st, color) ==
  IF color = st.runColor
  THEN [st EXCEPT !.run = @ + 1,
                  !.result = @ + (IF st.run + 1 = 5 THEN penaltyN1
                                  ELSE IF st.run + 1 > 5 THEN 1 ELSE 0)]
  ELSE LET h == finderPenaltyAddHistory(size, st.run, st.runHistory)
       IN  [runColor |-> color,
            run |-> 1,
            runHistory |-> h,
            result |-> st.result + (IF st.runColor = 0
                                    THEN finderPenaltyCountPatterns(h) * penaltyN3
                                    ELSE 0),
            bad |-> st.bad \/ (st.runColor = 0 /\ badRunHistory(size, h))]

\* lines 567 and 593: the end of a line, in state st
lineEnd(size, st) ==
  after(terminatedHistory(size, st.runColor, st.run, st.runHistory),
        LAMBDA h : [result |-> st.result + finderPenaltyCountPatterns(h) * penaltyN3,
                    bad |-> st.bad \/ badRunHistory(size, h)])

linePenalty(q, byColumn, a) ==
  after(forRange(LAMBDA s, b : lineStep(q.Size, s, lineCell(q, byColumn, a, b)),
                 [runColor |-> 0, run |-> 0,
                  runHistory |-> <<0, 0, 0, 0, 0, 0, 0>>,
                  result |-> 0, bad |-> FALSE],
                 0, q.Size),
        LAMBDA st : lineEnd(q.Size, st))

\* lines 547-569 (rows) and 573-595 (columns): the penalty p of a line added
\* to the result
addLine(acc, p) == [result |-> acc.result + p.result, bad |-> acc.bad \/ p.bad]

\* lines 600-605: the 2*2 block whose top left cell is k = y*(Size-1) + x
blockPenalty(q, k) ==
  LET y == k \div (q.Size - 1)
      x == k % (q.Size - 1)
      color == q.Modules[y][x]
  IN  IF /\ color = q.Modules[y][x + 1]
         /\ color = q.Modules[y + 1][x]
         /\ color = q.Modules[y + 1][x + 1]
      THEN penaltyN2
      ELSE 0

\* lines 619-623
\* The quotient rounded down.
balancePenaltyFloor(black, total) ==
  ((abs(black * 20 - total * 10) \div total) - 1) * penaltyN4

\* lines 609-622: the term of the balance of black and white modules
balancePenalty(black, total) ==
  (((abs(black * 20 - total * 10) + total - 1) \div total) - 1) * penaltyN4

\* lines 547-595: the rows, then the columns
linesPenalty(q) ==
  forRange(LAMBDA acc, x : addLine(acc, linePenalty(q, TRUE, x)),
           forRange(LAMBDA acc, y : addLine(acc, linePenalty(q, FALSE, y)),
                    [result |-> 0, bad |-> FALSE], 0, q.Size),
           0, q.Size)

\* lines 598-607
blocksPenalty(q) ==
  forRange(LAMBDA acc, k : acc + blockPenalty(q, k), 0, 0, (q.Size - 1) * (q.Size - 1))

\* lines 610-617
countBlack(q) ==
  forRange(LAMBDA acc, k : acc + bToI(q.Modules[k \div q.Size][k % q.Size] = 1),
           0, 0, q.Size * q.Size)

getPenaltyScore(q) ==
  after(linesPenalty(q),
        LAMBDA lines :
          [score |-> lines.result + blocksPenalty(q)
                       + balancePenalty(countBlack(q), q.Size * q.Size),
           panic |-> IF lines.bad THEN "bad run history" ELSE NoPanic])

(***************************************************************************)
(* handleConstructorMasking, lines 631-653.  The loop carries the symbol,  *)
(* mask and minPenalty; trials records, for each mask the loop evaluated,  *)
(* the penalty it computed.                                                *)
(***************************************************************************)
\* lines 635-642, with the mask of a trial left on the symbol
maskTrialNoUndo(st, i) ==
  after(drawFormatBits(applyMask(st.q, i), i),
        LAMBDA q1 :
          after(getPenaltyScore(q1),
                LAMBDA p :
                  [q |-> q1,
                   mask |-> IF p.score < st.minPenalty THEN i ELSE st.mask,
                   minPenalty |-> IF p.score < st.minPenalty THEN p.score ELSE st.minPenalty,
                   trials |-> Append(st.trials, p.score)]))

\* lines 635-642: one trial
maskTrial(st, i) ==
  after(drawFormatBits(applyMask(st.q, i), i),
        LAMBDA q1 :
          IF q1.panic # NoPanic THEN [st EXCEPT !.q = q1]
          ELSE after(getPenaltyScore(q1),
                     LAMBDA p :
                       IF p.panic # NoPanic
                       THEN [st EXCEPT !.q = [q1 EXCEPT !.panic = p.panic]]
                       ELSE [q |-> applyMask(q1, i),
                             mask |-> IF p.score < st.minPenalty THEN i ELSE st.mask,
                             minPenalty |-> IF p.score < st.minPenalty THEN p.score ELSE st.minPenalty,
                             trials |-> Append(st.trials, p.score)]))

\* The final mask applied, and the format bits left as they are.
handleConstructorMaskingStaleFormat(q, mask) ==
  after(IF mask = -1
        THEN forRange(LAMBDA s, i : maskTrial(s, i),
                      [q |-> q, mask |-> mask, minPenalty |-> MaxInt32, trials |-> <<>>],
                      0, 8)
        ELSE [q |-> q, mask |-> mask, minPenalty |-> MaxInt32, trials |-> <<>>],
        LAMBDA st :
          IF st.q.panic # NoPanic THEN st
          ELSE IF st.mask < 0 \/ 7 < st.mask
          THEN [st EXCEPT !.q.panic = "illegal mask value"]
          ELSE [st EXCEPT !.q = applyMask(st.q, st.mask)])

\* lines 631-653
handleConstructorMasking(q, mask) ==
  after(IF mask = -1
        THEN forRange(LAMBDA s, i : maskTrial(s, i),
                      [q |-> q, mask |-> mask, minPenalty |-> MaxInt32, trials |-> <<>>],
                      0, 8)
        ELSE [q |-> q, mask |-> mask, minPenalty |-> MaxInt32, trials |-> <<>>],
        LAMBDA st :
          IF st.q.panic # NoPanic THEN st
          ELSE IF st.mask < 0 \/ 7 < st.mask
          THEN [st EXCEPT !.q.panic = "illegal mask value"]
          ELSE [st EXCEPT !.q = drawFormatBits(applyMask(st.q, st.mask), st.mask)])

(***************************************************************************)
(* EncodeSegments, whole.  It returns an error and no symbol, or a symbol  *)
(* and no error, or it aborts.  Beside what it returns, the value below    *)
(* keeps what the call decided at line 103 (plan), the symbol as it stood  *)
(* before handleConstructorMasking (unmasked), the penalties               *)
(* handleConstructorMasking computed (trials), and the locals bb (bits)    *)
(* and dataCodeWords as they stand at line 140.                            *)
(***************************************************************************)
\* lines 142-163
\* lines 159-163, without line 161
finishSymbolWithFlags(q, mask) ==
  [Version |-> q.Version, Size |-> q.Size,
   ErrorCorrectionLevel |-> q.ErrorCorrectionLevel,
   Mask |-> mask, Modules |-> q.Modules, IsFunction |-> q.IsFunction]
\* lines 159-163: the symbol EncodeSegments returns
finishSymbol(q, mask) ==
  [Version |-> q.Version, Size |-> q.Size,
   ErrorCorrectionLevel |-> q.ErrorCorrectionLevel,
   Mask |-> mask, Modules |-> q.Modules, IsFunction |-> <<>>]

buildSymbol(dataCodeWords, version, level, mask) ==
  after(drawFunctionPatterns(newQRCode(version, level)),
        LAMBDA q0 :
          after(addECCAndInterleave(q0, dataCodeWords),
                LAMBDA allCodeWords :
                  after(IF q0.panic # NoPanic THEN q0
                        ELSE IF allCodeWords.panic # NoPanic
                        THEN [q0 EXCEPT !.panic = allCodeWords.panic]
                        ELSE drawCodewords(q0, allCodeWords.bytes),
                        LAMBDA q1 :
                          after(handleConstructorMasking(q1, mask),
                                LAMBDA m :
                                  [panic |-> m.q.panic,
                                   qr |-> IF m.q.panic # NoPanic THEN NilQRCode
                                          ELSE finishSymbol(m.q, m.mask),
                                   masking |->
                                     [unmasked |->
                                        [Version |-> q1.Version, Size |-> q1.Size,
                                         ErrorCorrectionLevel |->
                                           q1.ErrorCorrectionLevel,
                                         Mask |-> q1.Mask, Modules |-> q1.Modules,
                                         IsFunction |-> q1.IsFunction],
                                      trials |-> m.trials]]))))

\* lines 105-163, for the version, level and mask of plan
encodePlanned(ss, plan) ==
  after(dataBits(ss, plan.Version, plan.ErrorCorrectionLevel, plan.dataUsedBits),
        LAMBDA bb :
          IF bb.panic # NoPanic
          THEN [plan |-> plan, panic |-> bb.panic, qr |-> NilQRCode,
                masking |-> NoMasking, bits |-> <<>>, dataCodeWords |-> <<>>]
          ELSE after(packBits(bb.bits),
                     LAMBDA dataCodeWords :
                       after(buildSymbol(dataCodeWords, plan.Version,
                                         plan.ErrorCorrectionLevel, plan.mask),
                             LAMBDA b : [plan |-> plan, panic |-> b.panic,
                                         qr |-> b.qr, masking |-> b.masking,
                                         bits |-> bb.bits,
                                         dataCodeWords |-> dataCodeWords])))

encodeSegments(ss, e, opts) ==
  after(planSegments(segmentLengths(ss), e, opts),
        LAMBDA plan :
          IF plan.err # "none"
          THEN [plan |-> plan, panic |-> NoPanic, qr |-> NilQRCode,
                masking |-> NoMasking, bits |-> <<>>, dataCodeWords |-> <<>>]
          ELSE encodePlanned(ss, plan))

(***************************************************************************)
(* SpecEncode: one call of EncodeSegments on segments made by MakeBytes.   *)
(* The call starts with its arguments chosen.                              *)
(***************************************************************************)
\* The data of the segment: for 42 alone and for 209 alone two masks share
\* the lowest penalty.
EncodeDataChoices ==
  {data \in {<<>>, <<42>>, <<209>>, <<42, 209>>, <<255, 255, 65>>} :
     Len(data) <= MaxBytes}

EncodeSegChoices == {<<>>} \cup {<<MakeBytes(data)>> : data \in EncodeDataChoices}

\* A mask of every kind: the automatic one, by default, by WithMask(-1) and
\* by WithAutoMask; the fixed ones; and one out of range on either side.
EncodeOptChoices ==
  {<<>>, <<WithMask(3), WithAutoMask>>, <<WithBoostECL(FALSE)>>,
   <<WithBoostECL(FALSE), WithMask(5)>>}
    \cup {<<WithMask(m)>> : m \in -2..8}

InitEncode ==
  /\ pc = "idle"
  /\ segs \in EncodeSegChoices
  /\ ecl \in Levels
  /\ options \in EncodeOptChoices
  /\ result = NoResult
  /\ qr = NilQRCode /\ panic = NoPanic /\ masking = NoMasking
  /\ bitsUnused
  /\ rsUnused
  /\ makeUnused
  /\ alignUnused
  /\ sharedUnused
  /\ dataUnused
  /\ blocksUnused
  /\ drawUnused
  /\ balanceUnused
  /\ multiplyUnused

EncodeSegments ==
  /\ pc = "idle"
  /\ \E r \in {encodeSegments(segs, ecl, options)} :
         /\ result' = r.plan
         /\ qr' = r.qr
         /\ panic' = r.panic
         /\ masking' = r.masking
         /\ bitBuffer' = r.bits
         /\ dataBytes' = r.dataCodeWords
  /\ pc' = "returned"
  /\ UNCHANGED <<segs, ecl, options, tbVersion, tbResult, rsData, rsDegree, rsRemainder,
               text, assignValue, made,
               alignVersion, alignResult,
               static, symbols, calls,
               eccVersion, eccData, eccResult,
               sym, symData, symTrace, symPatterned, symDrawn, symMask,
               balVersion, balBlack, balResult,
               mulX, mulY, mulResult>>

NextEncode == EncodeSegments

SpecEncode == InitEncode /\ [][NextEncode]_vars

(***************************************************************************)
(* The segment makers (qrsegment.go, lines 43-167).  A text is the         *)
(* sequence of the bytes of a Go string.  A maker gives back its segment   *)
(* and the abort it ended with; the segment of an abort or of an error is  *)
(* NilSegment.                                                             *)
(***************************************************************************)
NilSegment == [Mode |-> [modeBits |-> 0, numBits |-> <<0, 0, 0>>], NumChars |-> 0, Data |-> <<>>]

\* line 43: "0123456789ABCDEFGHIJKLMNOPQRSTUVWXYZ $%*+-./:"
alphanumericCharset ==
  <<48, 49, 50, 51, 52, 53, 54, 55, 56, 57,
    65, 66, 67, 68, 69, 70, 71, 72, 73, 74, 75, 76, 77,
    78, 79, 80, 81, 82, 83, 84, 85, 86, 87, 88, 89, 90,
    32, 36, 37, 42, 43, 45, 46, 47, 58>>

\* line 46, with a class that ends before the '-'
alphanumericRegexpNoDash(t) ==
  \A i \in 1..Len(t) :
    t[i] \in (65..90) \cup (48..57) \cup {32, 36, 37, 42, 43, 46, 47, 58}
\* line 46: ^[A-Z0-9 $%*+./:-]*$ matches the text
alphanumericRegexp(t) ==
  \A i \in 1..Len(t) :
    t[i] \in (65..90) \cup (48..57) \cup {32, 36, 37, 42, 43, 46, 47, 58, 45}

\* line 47: ^[0-9]*$ matches the text
numericRegexp(t) == \A i \in 1..Len(t) : t[i] \in 48..57

\* strings.Index(s, c) for a text c of one byte
stringsIndex(s, c) ==
  IF \E k \in 1..Len(s) : s[k] = c
  THEN (CHOOSE k \in 1..Len(s) : s[k] = c /\ \A j \in 1..(k - 1) : s[j] # c) - 1
  ELSE -1

\* strconv.Atoi on a text of digits
Atoi(t) == forRange(LAMBDA d, k : d * 10 + (t[k + 1] - 48), 0, 0, Len(t))

\* line 140, with a field one bit short
numericFieldShort(n) == n * 3
\* line 140: the width of the field of n digits
numericField(n) == n * 3 + 1

\* lines 137-142: one pass of the loop, which ends when i reaches the length
numericStep(st, digits) ==
  IF ~(st.i < Len(digits)) THEN st
  ELSE [bb |-> appendBits(st.bb,
                          Atoi(SubSeq(digits, st.i + 1,
                                      st.i + min(Len(digits) - st.i, 3))),
                          numericField(min(Len(digits) - st.i, 3))),
        i |-> st.i + min(Len(digits) - st.i, 3)]

MakeNumeric(digits) ==
  IF ~numericRegexp(digits)
  THEN [seg |-> NilSegment, panic |-> "string contains non-numeric characters"]
  ELSE after(forRange(LAMBDA st, k : numericStep(st, digits),
                      [bb |-> emptyBuffer, i |-> 0], 0, Len(digits)).bb,
             LAMBDA bb :
               IF bb.panic # NoPanic THEN [seg |-> NilSegment, panic |-> bb.panic]
               ELSE [seg |-> [Mode |-> Numeric, NumChars |-> Len(digits),
                              Data |-> bb.bits],
                     panic |-> NoPanic])

\* lines 76-80: one pass of the loop, which ends when i exceeds len(text)-2
alphanumericStep(st, t) ==
  IF ~(st.i <= Len(t) - 2) THEN st
  ELSE [bb |-> appendBits(st.bb,
                          stringsIndex(alphanumericCharset, t[st.i + 1]) * 45
                            + stringsIndex(alphanumericCharset, t[st.i + 2]),
                          11),
        i |-> st.i + 2]

\* lines 82-84: the character that remains
alphanumericLast(st, t) ==
  IF st.i < Len(t)
  THEN appendBits(st.bb, stringsIndex(alphanumericCharset, t[st.i + 1]), 6)
  ELSE st.bb

MakeAlphanumeric(t) ==
  IF ~alphanumericRegexp(t)
  THEN [seg |-> NilSegment, panic |-> "string contains non-alphanumeric characters"]
  ELSE after(alphanumericLast(forRange(LAMBDA st, k : alphanumericStep(st, t),
                                       [bb |-> emptyBuffer, i |-> 0], 0, Len(t)),
                              t),
             LAMBDA bb :
               IF bb.panic # NoPanic THEN [seg |-> NilSegment, panic |-> bb.panic]
               ELSE [seg |-> [Mode |-> Alphanumeric, NumChars |-> Len(t),
                              Data |-> bb.bits],
                     panic |-> NoPanic])

ErrECI == "ECI assignment out of range"

\* lines 111-121, with 2^14 taken for a value of 14 bits
eciBitsOff(v) ==
  IF v < 2 ^ 7 THEN appendBits(emptyBuffer, v, 8)
  ELSE IF v <= 2 ^ 14 THEN appendBits(appendBits(emptyBuffer, 2, 2), v, 14)
  ELSE IF v < 1000000 THEN appendBits(appendBits(emptyBuffer, 6, 3), v, 21)
  ELSE [bits |-> <<>>, panic |-> ErrECI]
\* lines 111-121: the bits, or the error
eciBits(v) ==
  IF v < 2 ^ 7 THEN appendBits(emptyBuffer, v, 8)
  ELSE IF v < 2 ^ 14 THEN appendBits(appendBits(emptyBuffer, 2, 2), v, 14)
  ELSE IF v < 1000000 THEN appendBits(appendBits(emptyBuffer, 6, 3), v, 21)
  ELSE [bits |-> <<>>, panic |-> ErrECI]

MakeECI(v) ==
  after(eciBits(v),
        LAMBDA bb :
          IF bb.panic = ErrECI
          THEN [seg |-> NilSegment, err |-> ErrECI, panic |-> NoPanic]
          ELSE IF bb.panic # NoPanic
          THEN [seg |-> NilSegment, err |-> "none", panic |-> bb.panic]
          ELSE [seg |-> [Mode |-> ECI, NumChars |-> 0, Data |-> bb.bits],
                err |-> "none", panic |-> NoPanic])

\* The slice of one segment that MakeSegments returns, or the abort.
oneSegment(r) ==
  [segs |-> IF r.panic # NoPanic THEN <<>> ELSE <<r.seg>>, panic |-> r.panic]

\* lines 153-167, with the test of line 162 before the test of line 158
MakeSegmentsAlphanumericFirst(t) ==
  IF Len(t) = 0 THEN [segs |-> <<>>, panic |-> NoPanic]
  ELSE IF alphanumericRegexp(t) THEN oneSegment(MakeAlphanumeric(t))
  ELSE IF numericRegexp(t) THEN oneSegment(MakeNumeric(t))
  ELSE [segs |-> <<MakeBytes(t)>>, panic |-> NoPanic]
MakeSegments(t) ==
  IF Len(t) = 0 THEN [segs |-> <<>>, panic |-> NoPanic]
  ELSE IF numericRegexp(t) THEN oneSegment(MakeNumeric(t))
  ELSE IF alphanumericRegexp(t) THEN oneSegment(MakeAlphanumeric(t))
  ELSE [segs |-> <<MakeBytes(t)>>, panic |-> NoPanic]

(***************************************************************************)
(* SpecSegs: one call of MakeNumeric, MakeAlphanumeric, MakeSegments or    *)
(* MakeECI.                                                                *)
(***************************************************************************)
\* '-', '0', '7', '9', ':', 'A', 'a': digits, the first and the last
\* character of the alphabet, the character that ends the class of the
\* regular expression, and a character outside the alphabet.
TextByteChoices == {45, 48, 55, 57, 58, 65, 97}

\* "673", "SUDOKU://", and a text that is not ASCII
TextChoices ==
  SeqsUpTo(TextByteChoices, MaxText)
    \cup {<<54, 55, 51>>, <<83, 85, 68, 79, 75, 85, 58, 47, 47>>, <<49, 195, 169>>}

\* Values at both sides of each limit of MakeECI.
ECIChoices ==
  {-1, 0, 1, 26, 127, 128, 129, 9999, 16383, 16384, 16385, 999999, 1000000, 1000001}

InitSegs ==
  /\ pc = "idle"
  /\ segs = <<>>
  /\ encodeUnused
  /\ bitsUnused
  /\ rsUnused
  /\ makeUnused
  /\ alignUnused
  /\ sharedUnused
  /\ dataUnused
  /\ blocksUnused
  /\ drawUnused
  /\ balanceUnused
  /\ multiplyUnused

encodeVars == <<segs, ecl, options, result, qr, panic, masking>>
bitsVars == <<tbVersion, tbResult>>
rsVars == <<rsData, rsDegree, rsRemainder>>

CallMakeNumeric ==
  /\ pc = "idle"
  /\ \E t \in TextChoices :
       /\ text' = t
       /\ \E r \in {MakeNumeric(t)} :
            made' = [fn |-> "MakeNumeric",
                     segs |-> IF r.panic # NoPanic THEN <<>> ELSE <<r.seg>>,
                     err |-> "none", panic |-> r.panic]
  /\ pc' = "returned"
  /\ UNCHANGED <<encodeVars, bitsVars, rsVars, assignValue, alignVersion, alignResult,
               static, symbols, calls,
               bitBuffer, dataBytes,
               eccVersion, eccData, eccResult,
               sym, symData, symTrace, symPatterned, symDrawn, symMask,
               balVersion, balBlack, balResult,
               mulX, mulY, mulResult>>

CallMakeAlphanumeric ==
  /\ pc = "idle"
  /\ \E t \in TextChoices :
       /\ text' = t
       /\ \E r \in {MakeAlphanumeric(t)} :
            made' = [fn |-> "MakeAlphanumeric",
                     segs |-> IF r.panic # NoPanic THEN <<>> ELSE <<r.seg>>,
                     err |-> "none", panic |-> r.panic]
  /\ pc' = "returned"
  /\ UNCHANGED <<encodeVars, bitsVars, rsVars, assignValue, alignVersion, alignResult,
               static, symbols, calls,
               bitBuffer, dataBytes,
               eccVersion, eccData, eccResult,
               sym, symData, symTrace, symPatterned, symDrawn, symMask,
               balVersion, balBlack, balResult,
               mulX, mulY, mulResult>>

CallMakeSegments ==
  /\ pc = "idle"
  /\ \E t \in TextChoices :
       /\ text' = t
       /\ \E r \in {MakeSegments(t)} :
            made' = [fn |-> "MakeSegments", segs |-> r.segs,
                     err |-> "none", panic |-> r.panic]
  /\ pc' = "returned"
  /\ UNCHANGED <<encodeVars, bitsVars, rsVars, assignValue, alignVersion, alignResult,
               static, symbols, calls,
               bitBuffer, dataBytes,
               eccVersion, eccData, eccResult,
               sym, symData, symTrace, symPatterned, symDrawn, symMask,
               balVersion, balBlack, balResult,
               mulX, mulY, mulResult>>

CallMakeECI ==
  /\ pc = "idle"
  /\ \E v \in ECIChoices :
       /\ assignValue' = v
       /\ \E r \in {MakeECI(v)} :
            made' = [fn |-> "MakeECI",
                     segs |-> IF r.panic # NoPanic \/ r.err # "none" THEN <<>>
                              ELSE <<r.seg>>,
                     err |-> r.err, panic |-> r.panic]
  /\ pc' = "returned"
  /\ UNCHANGED <<encodeVars, bitsVars, rsVars, text,
               alignVersion, alignResult,
               static, symbols, calls,
               bitBuffer, dataBytes,
               eccVersion, eccData, eccResult,
               sym, symData, symTrace, symPatterned, symDrawn, symMask,
               balVersion, balBlack, balResult,
               mulX, mulY, mulResult>>

NextSegs == CallMakeNumeric \/ CallMakeAlphanumeric \/ CallMakeSegments \/ CallMakeECI

SpecSegs == InitSegs /\ [][NextSegs]_vars

(***************************************************************************)
(* SpecText: one call of EncodeText or of EncodeBinary (part_000, lines    *)
(* 51-54 and 168-171), or the call of EncodeSegments that TestSeparate     *)
(* makes (part_001, lines 76-80) on the segments of the two parts of a     *)
(* text.  The call starts with its text and level chosen.                  *)
(***************************************************************************)
\* "SUDOKU://"
SudokuPrefix == <<83, 85, 68, 79, 75, 85, 58, 47, 47>>

\* The 81 digits of the puzzle of TestSeparate and TestSingle.
SudokuDigits ==
  <<48, 48, 55, 48, 50, 48, 48, 48, 52, 57, 51, 48, 48, 48, 48, 54,
    48, 48, 54, 48, 48, 51, 48, 48, 48, 48, 48, 48, 48, 48, 48, 48,
    48, 48, 53, 48, 50, 48, 48, 48, 49, 48, 48, 48, 56, 48, 48, 54,
    57, 48, 48, 52, 48, 48, 48, 48, 51, 55, 48, 48, 57, 48, 48, 48,
    50, 48, 48, 53, 48, 48, 48, 49, 48, 48, 48, 48, 48, 56, 48, 48,
    48>>

\* "", "9", "A", "a", "0079", "-:A7", a text that is not ASCII, and the
\* texts of the two tests.
EncodeTextChoices ==
  {<<>>, <<57>>, <<65>>, <<97>>, <<48, 48, 55, 57>>, <<45, 58, 65, 55>>,
   <<49, 195, 169>>, SudokuPrefix, SudokuDigits, SudokuPrefix \o SudokuDigits}

InitText ==
  /\ pc = "idle"
  /\ text \in EncodeTextChoices
  /\ ecl \in Levels
  /\ segs = <<>> /\ options = <<>> /\ result = NoResult
  /\ qr = NilQRCode /\ panic = NoPanic /\ masking = NoMasking
  /\ assignValue = 0 /\ made = NoMade
  /\ bitsUnused
  /\ rsUnused
  /\ alignUnused
  /\ sharedUnused
  /\ dataUnused
  /\ blocksUnused
  /\ drawUnused
  /\ balanceUnused
  /\ multiplyUnused

\* EncodeSegments on the segments ms, a slice and the abort of its making
encodeMade(ms, e) ==
  IF ms.panic # NoPanic
  THEN [plan |-> NoResult, panic |-> ms.panic, qr |-> NilQRCode, masking |-> NoMasking]
  ELSE encodeSegments(ms.segs, e, <<>>)

\* part_001, lines 77-78: the segments of the two parts of a text
separateSegments(first, second) ==
  [segs |-> MakeSegments(first).segs \o MakeSegments(second).segs,
   panic |-> IF MakeSegments(first).panic # NoPanic THEN MakeSegments(first).panic
             ELSE MakeSegments(second).panic]

EncodeText ==
  /\ pc = "idle"
  /\ \E ms \in {MakeSegments(text)} :
       /\ made' = [fn |-> "EncodeText", segs |-> ms.segs, err |-> "none",
                   panic |-> ms.panic]
       /\ segs' = ms.segs
       /\ \E r \in {encodeMade(ms, ecl)} :
            /\ result' = r.plan
            /\ qr' = r.qr
            /\ panic' = r.panic
            /\ masking' = r.masking
  /\ pc' = "returned"
  /\ UNCHANGED <<text, ecl, options, assignValue, bitsVars, rsVars,
               alignVersion, alignResult,
               static, symbols, calls,
               bitBuffer, dataBytes,
               eccVersion, eccData, eccResult,
               sym, symData, symTrace, symPatterned, symDrawn, symMask,
               balVersion, balBlack, balResult,
               mulX, mulY, mulResult>>

EncodeBinary ==
  /\ pc = "idle"
  /\ \E ms \in {[segs |-> <<MakeBytes(text)>>, panic |-> NoPanic]} :
       /\ made' = [fn |-> "EncodeBinary", segs |-> ms.segs, err |-> "none",
                   panic |-> ms.panic]
       /\ segs' = ms.segs
       /\ \E r \in {encodeMade(ms, ecl)} :
            /\ result' = r.plan
            /\ qr' = r.qr
            /\ panic' = r.panic
            /\ masking' = r.masking
  /\ pc' = "returned"
  /\ UNCHANGED <<text, ecl, options, assignValue, bitsVars, rsVars,
               alignVersion, alignResult,
               static, symbols, calls,
               bitBuffer, dataBytes,
               eccVersion, eccData, eccResult,
               sym, symData, symTrace, symPatterned, symDrawn, symMask,
               balVersion, balBlack, balResult,
               mulX, mulY, mulResult>>

\* The second part starts after the first character or after the ninth.
EncodeSeparate ==
  /\ pc = "idle"
  /\ \E k \in {1, Len(SudokuPrefix)} :
       /\ k < Len(text)
       /\ \E ms \in {separateSegments(SubSeq(text, 1, k), SubSeq(text, k + 1, Len(text)))} :
            /\ made' = [fn |-> "EncodeSegments", segs |-> ms.segs, err |-> "none",
                        panic |-> ms.panic]
            /\ segs' = ms.segs
            /\ \E r \in {encodeMade(ms, ecl)} :
                 /\ result' = r.plan
                 /\ qr' = r.qr
                 /\ panic' = r.panic
                 /\ masking' = r.masking
  /\ pc' = "returned"
  /\ UNCHANGED <<text, ecl, options, assignValue, bitsVars, rsVars,
               alignVersion, alignResult,
               static, symbols, calls,
               bitBuffer, dataBytes,
               eccVersion, eccData, eccResult,
               sym, symData, symTrace, symPatterned, symDrawn, symMask,
               balVersion, balBlack, balResult,
               mulX, mulY, mulResult>>

NextText == EncodeText \/ EncodeBinary \/ EncodeSeparate

SpecText == InitText /\ [][NextText]_vars

(***************************************************************************)
(* SpecData: one call of EncodeSegments on segments of every mode, made by *)
(* MakeBytes, MakeNumeric, MakeAlphanumeric and MakeECI.  The call is the  *)
(* one of SpecEncode; the segments are chosen for the bit string they give *)
(* at version 1 and level Low, whose capacity is 152 bits.                 *)
(***************************************************************************)
\* n digits, 1 2 3 ... 9 0 1 ...
digitText(n) == [i \in 1..n |-> 48 + (i % 10)]

\* n bytes, 65 66 67 ...
byteData(n) == [i \in 1..n |-> 64 + i]

DataSegChoices ==
  {<<>>,
   <<MakeBytes(<<42>>)>>,
   \* 148 bits: a terminator of 4 bits and no pad byte
   <<MakeBytes(byteData(17))>>,
   \* 18 bits: 2 bits to the next byte
   <<MakeNumeric(<<55>>).seg>>,
   \* 151 bits: a terminator of 1 bit
   <<MakeNumeric(digitText(41)).seg>>,
   \* 150 bits: a terminator of 2 bits
   <<MakeAlphanumeric(byteData(25)).seg>>,
   <<MakeAlphanumeric(<<65, 67, 45, 52, 50>>).seg>>,
   <<MakeECI(26).seg, MakeBytes(<<195, 169>>)>>,
   \* 152 bits: no terminator
   <<MakeECI(26).seg, MakeBytes(byteData(16))>>,
   <<MakeNumeric(<<54, 55, 51>>).seg, MakeAlphanumeric(SudokuPrefix).seg>>}

DataOptChoices == {<<WithMask(2)>>, <<WithBoostECL(FALSE), WithMask(2)>>}

InitData ==
  /\ pc = "idle"
  /\ segs \in DataSegChoices
  /\ ecl \in Levels
  /\ options \in DataOptChoices
  /\ result = NoResult
  /\ qr = NilQRCode /\ panic = NoPanic /\ masking = NoMasking
  /\ bitBuffer = <<>> /\ dataBytes = <<>>
  /\ bitsUnused
  /\ rsUnused
  /\ makeUnused
  /\ alignUnused
  /\ sharedUnused
  /\ blocksUnused
  /\ drawUnused
  /\ balanceUnused
  /\ multiplyUnused

SpecData == InitData /\ [][NextEncode]_vars

(***************************************************************************)
(* SpecMade: one call of EncodeSegments on segments of every maker, at     *)
(* every level, with options of every kind: masks in and out of range, the *)
(* automatic mask, the boost of the level off, and version bounds in and   *)
(* out of range.  The long segments are taken with a fixed mask: the       *)
(* bytes that fit no version below 10, because 256 characters need a count *)
(* of 16 bits; the bytes and the digits one over the capacity of version   *)
(* 40; the digits whose number fits no count field at all.                 *)
(***************************************************************************)
MadeSegChoices ==
  {<<>>,
   <<MakeBytes(byteData(17))>>,
   <<MakeNumeric(digitText(41)).seg>>,
   <<MakeAlphanumeric(byteData(25)).seg>>,
   <<MakeECI(26).seg, MakeBytes(byteData(16))>>}
    \cup {MakeSegments(t).segs : t \in {<<48, 48, 55, 57>>, <<45, 58, 65, 55>>, <<49, 195, 169>>}}
    \cup {<<MakeNumeric(<<48, 49>>).seg, MakeAlphanumeric(<<65, 32>>).seg, MakeBytes(<<0, 255>>)>>,
          <<MakeECI(999999).seg, MakeECI(0).seg>>}

LongSegChoices ==
  {<<MakeBytes(byteData(256))>>,
   <<MakeBytes(byteData(2954))>>,
   <<MakeNumeric(digitText(7090)).seg>>,
   <<MakeNumeric(digitText(16384)).seg>>}

MadeOptChoices ==
  {<<>>, <<WithAutoMask>>, <<WithBoostECL(FALSE)>>,
   <<WithMask(-2)>>, <<WithMask(0)>>, <<WithMask(7)>>, <<WithMask(8)>>,
   <<WithMinVersion(0)>>, <<WithMinVersion(5)>>, <<WithMinVersion(41)>>,
   <<WithMaxVersion(3), WithMask(4)>>, <<WithMaxVersion(41)>>,
   <<WithMaxVersion(3), WithMinVersion(5), WithMask(3)>>,
   <<WithMinVersion(2), WithBoostECL(FALSE), WithMask(1)>>}

LongOptChoices == {<<WithMask(2)>>, <<WithBoostECL(FALSE), WithMask(6)>>}

InitMade ==
  /\ pc = "idle"
  /\ \/ segs \in MadeSegChoices /\ options \in MadeOptChoices
     \/ segs \in LongSegChoices /\ options \in LongOptChoices
  /\ ecl \in Levels
  /\ result = NoResult
  /\ qr = NilQRCode /\ panic = NoPanic /\ masking = NoMasking
  /\ bitBuffer = <<>> /\ dataBytes = <<>>
  /\ bitsUnused
  /\ rsUnused
  /\ makeUnused
  /\ alignUnused
  /\ sharedUnused
  /\ blocksUnused
  /\ drawUnused
  /\ balanceUnused
  /\ multiplyUnused

SpecMade == InitMade /\ [][NextEncode]_vars

(***************************************************************************)
(* SpecBlocks: one call of addECCAndInterleave (part_000, lines 173-212)   *)
(* on a symbol of a version up to MaxBlockVersion and of any level, with   *)
(* as many data codewords as numDataCodewords gives the pair.  From        *)
(* version 5 on a symbol has short and long blocks at once.                *)
(***************************************************************************)
\* n bytes, different from one another as long as n <= 256
BlockDataChoices(n) ==
  {[i \in 1..n |-> (7 * i + 3) % 256],
   [i \in 1..n |-> (251 * i + 130) % 256],
   [i \in 1..n |-> (i * i + 77 * i) % 256]}

InitBlocks ==
  /\ pc = "idle"
  /\ segs = <<>>
  /\ ecl \in Levels
  /\ options = <<>> /\ result = NoResult
  /\ qr = NilQRCode /\ panic = NoPanic /\ masking = NoMasking
  /\ bitsUnused
  /\ rsUnused
  /\ makeUnused
  /\ alignUnused
  /\ sharedUnused
  /\ dataUnused
  /\ eccVersion \in MinVersion..MaxBlockVersion
  /\ eccData \in BlockDataChoices(numDataCodewords(ecl, eccVersion))
  /\ eccResult = NoBlocks
  /\ drawUnused
  /\ balanceUnused
  /\ multiplyUnused

AddECCAndInterleave ==
  /\ pc = "idle"
  /\ \E r \in {addECCAndInterleave(newQRCode(eccVersion, ecl), eccData)} :
       /\ eccResult' = r
       /\ panic' = r.panic
  /\ pc' = "returned"
  /\ UNCHANGED <<segs, ecl, options, result, qr, masking, tbVersion, tbResult,
                 rsData, rsDegree, rsRemainder, text, assignValue, made,
                 alignVersion, alignResult, static, symbols, calls,
                 bitBuffer, dataBytes, eccVersion, eccData,
               sym, symData, symTrace, symPatterned, symDrawn, symMask,
               balVersion, balBlack, balResult,
               mulX, mulY, mulResult>>

NextBlocks == AddECCAndInterleave

SpecBlocks == InitBlocks /\ [][NextBlocks]_vars

(***************************************************************************)
(* SpecDraw: the construction of a symbol, one operation after another, as *)
(* EncodeSegments calls them at lines 156-159: drawFunctionPatterns on a   *)
(* new symbol of any version, then drawCodewords, then either              *)
(* handleConstructorMasking or applyMask twice with one mask.  The         *)
(* codewords are drawn on symbols up to version MaxDrawVersion; versions 2 *)
(* to 6 have 7 remainder bits, and version 7 has the version information.  *)
(***************************************************************************)
\* The version and level of the symbol.  The level decides the format bits
\* alone, so the symbols that get no codewords are taken at level Low.
DrawSymbolChoices ==
  {c \in Versions \X Levels : c[1] <= MaxDrawVersion \/ c[2] = Low}

\* n codewords
DrawDataChoices(n) ==
  {[k \in 1..n |-> (37 * k + 11) % 256],
   [k \in 1..n |-> (k * k + 3 * k + 164) % 256]}

\* The automatic mask and a given one.
DrawMaskChoices == {-1, 3}

InitDraw ==
  /\ pc = "new"
  /\ segs = <<>>
  /\ encodeUnused
  /\ bitsUnused
  /\ rsUnused
  /\ makeUnused
  /\ alignUnused
  /\ sharedUnused
  /\ dataUnused
  /\ blocksUnused
  /\ sym \in {newQRCode(c[1], c[2]) : c \in DrawSymbolChoices}
  /\ symData = <<>> /\ symTrace = NoTrace
  /\ symPatterned = NilQRCode /\ symDrawn = NilQRCode /\ symMask = 0
  /\ balanceUnused
  /\ multiplyUnused

otherVars ==
  <<segs, ecl, options, result, qr, panic, masking, tbVersion, tbResult,
    rsData, rsDegree, rsRemainder, text, assignValue, made,
    alignVersion, alignResult, static, symbols, calls,
    bitBuffer, dataBytes, eccVersion, eccData, eccResult>>

\* line 156
DrawFunctionPatterns ==
  /\ pc = "new"
  /\ \E q \in {drawFunctionPatterns(sym)} :
       /\ sym' = q
       /\ symPatterned' = q
  /\ pc' = "patterned"
  /\ UNCHANGED <<symData, symTrace, symDrawn, symMask, otherVars,
               balVersion, balBlack, balResult,
               mulX, mulY, mulResult>>

\* line 158
DrawCodewords ==
  /\ pc = "patterned"
  /\ sym.Version <= MaxDrawVersion
  /\ \E data \in DrawDataChoices(numRawDataModules(sym.Version) \div 8) :
       \E t \in {drawCodewordsTraced(sym, data)} :
         /\ sym' = t.q
         /\ symDrawn' = t.q
         /\ symData' = data
         /\ symTrace' = [trace |-> t.trace, i |-> t.i, n |-> t.n, trials |-> <<>>]
  /\ pc' = "drawn"
  /\ UNCHANGED <<symPatterned, symMask, otherVars,
               balVersion, balBlack, balResult,
               mulX, mulY, mulResult>>

\* applyMask, lines 289-316, on the symbol drawCodewords left
ApplyMask(mask) ==
  /\ pc = "drawn"
  /\ sym' = applyMask(sym, mask)
  /\ symMask' = mask
  /\ pc' = "masked"
  /\ UNCHANGED <<symData, symTrace, symPatterned, symDrawn, otherVars,
               balVersion, balBlack, balResult,
               mulX, mulY, mulResult>>

\* applyMask once more, with the same mask
ApplyMaskAgain ==
  /\ pc = "masked"
  /\ sym' = applyMask(sym, symMask)
  /\ pc' = "restored"
  /\ UNCHANGED <<symData, symTrace, symPatterned, symDrawn, symMask, otherVars,
               balVersion, balBlack, balResult,
               mulX, mulY, mulResult>>

\* line 159: qrCode.Mask = qrCode.handleConstructorMasking(s.mask)
HandleConstructorMasking(mask) ==
  /\ pc = "drawn"
  /\ \E m \in {handleConstructorMasking(sym, mask)} :
       /\ sym' = [m.q EXCEPT !.Mask = m.mask]
       /\ symMask' = m.mask
       /\ symTrace' = [symTrace EXCEPT !.trials = m.trials]
  /\ pc' = "finished"
  /\ UNCHANGED <<symData, symPatterned, symDrawn, otherVars,
               balVersion, balBlack, balResult,
               mulX, mulY, mulResult>>

NextDraw ==
  \/ DrawFunctionPatterns
  \/ DrawCodewords
  \/ \E mask \in 0..7 : ApplyMask(mask)
  \/ ApplyMaskAgain
  \/ \E mask \in DrawMaskChoices : HandleConstructorMasking(mask)

SpecDraw == InitDraw /\ [][NextDraw]_vars

(***************************************************************************)
(* SpecMultiply: reedSolomonMultiply (part_000, lines 690-699) for every   *)
(* pair of bytes.                                                          *)
(***************************************************************************)
InitMultiply ==
  /\ pc = "idle"
  /\ segs = <<>>
  /\ encodeUnused
  /\ bitsUnused
  /\ rsUnused
  /\ makeUnused
  /\ alignUnused
  /\ sharedUnused
  /\ dataUnused
  /\ blocksUnused
  /\ drawUnused
  /\ balanceUnused
  /\ mulX \in 0..255
  /\ mulY \in 0..255
  /\ mulResult = -1

Multiply ==
  /\ pc = "idle"
  /\ mulResult' = reedSolomonMultiply(mulX, mulY)
  /\ pc' = "returned"
  /\ UNCHANGED <<sym, symData, symTrace, symPatterned, symDrawn, symMask, otherVars,
                 balVersion, balBlack, balResult, mulX, mulY>>

NextMultiply == Multiply

SpecMultiply == InitMultiply /\ [][NextMultiply]_vars

(***************************************************************************)
(* SpecBalance: the last term of getPenaltyScore (part_000, lines 609-622) *)
(* for a symbol of any version and a number of black modules.  Up to       *)
(* version MaxBalanceVersion every number from 0 to Size*Size is taken; at *)
(* the versions above, the numbers around every multiple of 5% of the      *)
(* modules, and around the half.                                           *)
(***************************************************************************)
BlackChoices(v) ==
  LET total == (v * 4 + 17) * (v * 4 + 17)
  IN  IF v <= MaxBalanceVersion THEN 0..total
      ELSE {b \in 0..total :
              \E p \in 0..20 : \E d \in -2..2 : b = ((p * 5 * total) \div 100) + d}
             \cup {(total \div 2) - 1, total \div 2, (total \div 2) + 1}

InitBalance ==
  /\ pc = "idle"
  /\ segs = <<>>
  /\ encodeUnused
  /\ bitsUnused
  /\ rsUnused
  /\ makeUnused
  /\ alignUnused
  /\ sharedUnused
  /\ dataUnused
  /\ blocksUnused
  /\ drawUnused
  /\ balVersion \in Versions
  /\ balBlack \in BlackChoices(balVersion)
  /\ balResult = 0
  /\ multiplyUnused

\* lines 609-622, with Size = version*4 + 17 (line 142)
BalanceTerm ==
  /\ pc = "idle"
  /\ balResult' = balancePenalty(balBlack, (balVersion * 4 + 17) * (balVersion * 4 + 17))
  /\ pc' = "returned"
  /\ UNCHANGED <<sym, symData, symTrace, symPatterned, symDrawn, symMask, otherVars,
                 balVersion, balBlack,
               mulX, mulY, mulResult>>

NextBalance == BalanceTerm

SpecBalance == InitBalance /\ [][NextBalance]_vars

(***************************************************************************)
(* SpecAlign: one call of getAlignmentPatternPositions, or one read of the *)
(* table alignmentPatternPositions that init filled (package.go, lines     *)
(* 101-105).  The version is chosen at the start.                          *)
(***************************************************************************)
InitAlign ==
  /\ pc = "idle"
  /\ segs = <<>>
  /\ encodeUnused
  /\ bitsUnused
  /\ rsUnused
  /\ makeUnused
  /\ alignVersion \in Versions
  /\ alignResult = NoPositions
  /\ sharedUnused
  /\ dataUnused
  /\ blocksUnused
  /\ drawUnused
  /\ balanceUnused
  /\ multiplyUnused

makeVars == <<text, assignValue, made>>

GetAlignmentPatternPositions ==
  /\ pc = "idle"
  /\ alignResult' = [from |-> "call", pos |-> getAlignmentPatternPositions(alignVersion)]
  /\ pc' = "returned"
  /\ UNCHANGED <<alignVersion, encodeVars, bitsVars, rsVars, makeVars,
               static, symbols, calls,
               bitBuffer, dataBytes,
               eccVersion, eccData, eccResult,
               sym, symData, symTrace, symPatterned, symDrawn, symMask,
               balVersion, balBlack, balResult,
               mulX, mulY, mulResult>>

\* part_000, line 439
ReadAlignmentPatternPositions ==
  /\ pc = "idle"
  /\ alignResult' = [from |-> "table", pos |-> alignmentPatternPositions[alignVersion]]
  /\ pc' = "returned"
  /\ UNCHANGED <<alignVersion, encodeVars, bitsVars, rsVars, makeVars,
               static, symbols, calls,
               bitBuffer, dataBytes,
               eccVersion, eccData, eccResult,
               sym, symData, symTrace, symPatterned, symDrawn, symMask,
               balVersion, balBlack, balResult,
               mulX, mulY, mulResult>>

NextAlign == GetAlignmentPatternPositions \/ ReadAlignmentPatternPositions

SpecAlign == InitAlign /\ [][NextAlign]_vars

(***************************************************************************)
(* SpecShared: MaxCalls calls of EncodeSegments (part_000, lines 57-164)   *)
(* that run at the same time on the same segments.  A call advances by one *)
(* step at a time, and the steps of the calls interleave in any order.     *)
(* What the calls can all reach is in variables of its own: the tables of  *)
(* the package (static), the segments of the caller (segs) and the symbols *)
(* allocated so far (symbols).  The locals of a call are in calls.         *)
(***************************************************************************)
Calls == 1..MaxCalls

\* Every call working on one symbol of the package.
ownSymbolShared(c) == 1

\* lines 143-154: qrCode is a local of the call, and its grids are made by
\* make, so the symbol of call c is a new one.
ownSymbol(c) == c

\* One segment that fits version 1 at every level, and one that needs
\* version 2 at level High.
SharedSegChoices ==
  {<<MakeBytes(<<42>>)>>, <<MakeBytes(<<72, 101, 108, 108, 111, 44, 32, 81>>)>>}

SharedArgChoices ==
  {[ecl |-> Low, options |-> <<WithMask(0)>>],
   [ecl |-> High, options |-> <<WithMask(5)>>]}

\* The arguments of every call.  The calls are alike, so they are numbered
\* in the order of their levels.
SharedArgs ==
  {args \in [Calls -> SharedArgChoices] :
     \A c \in Calls : c + 1 \in Calls => args[c].ecl <= args[c + 1].ecl}

\* A call that has its arguments and has not started.
newCall(args) ==
  [pc |-> "called", ecl |-> args.ecl, options |-> args.options,
   plan |-> NoResult, dataCodeWords |-> <<>>, symbol |-> 0,
   allCodeWords |-> <<>>, err |-> "none", panic |-> NoPanic]

InitShared ==
  /\ pc = "idle"
  /\ segs \in SharedSegChoices
  /\ ecl = 0 /\ options = <<>> /\ result = NoResult
  /\ qr = NilQRCode /\ panic = NoPanic /\ masking = NoMasking
  /\ bitsUnused
  /\ rsUnused
  /\ makeUnused
  /\ alignUnused
  /\ static = staticTables
  /\ symbols = [g \in Calls |-> NilQRCode]
  /\ calls \in {[c \in Calls |-> newCall(args[c])] : args \in SharedArgs}
  /\ dataUnused
  /\ blocksUnused
  /\ drawUnused
  /\ balanceUnused
  /\ multiplyUnused

aloneVars ==
  <<pc, ecl, options, result, qr, panic, masking, tbVersion, tbResult,
    rsData, rsDegree, rsRemainder, text, assignValue, made,
    alignVersion, alignResult>>

\* lines 57-140: the options, the version and the level, then the bit
\* string and the data codewords
DataStep(c) ==
  /\ calls[c].pc = "called"
  /\ \E r \in {after(planSegments(segmentLengths(segs), calls[c].ecl, calls[c].options),
                     LAMBDA plan :
                       IF plan.err # "none"
                       THEN [plan |-> plan, panic |-> NoPanic, bits |-> <<>>]
                       ELSE after(dataBits(segs, plan.Version, plan.ErrorCorrectionLevel,
                                           plan.dataUsedBits),
                                  LAMBDA bb : [plan |-> plan, panic |-> bb.panic,
                                               bits |-> bb.bits]))} :
       calls' = [calls EXCEPT ![c].plan = r.plan,
                              ![c].err = r.plan.err,
                              ![c].panic = r.panic,
                              ![c].dataCodeWords =
                                IF r.plan.err # "none" \/ r.panic # NoPanic THEN <<>>
                                ELSE packBits(r.bits),
                              ![c].pc = IF r.plan.err # "none" THEN "returned"
                                        ELSE IF r.panic # NoPanic THEN "aborted"
                                        ELSE "packed"]
  /\ UNCHANGED <<static, segs, symbols, aloneVars,
               bitBuffer, dataBytes,
               eccVersion, eccData, eccResult,
               sym, symData, symTrace, symPatterned, symDrawn, symMask,
               balVersion, balBlack, balResult,
               mulX, mulY, mulResult>>

\* lines 142-156: the symbol of the call and its function patterns
PatternsStep(c) ==
  /\ calls[c].pc = "packed"
  /\ \E q \in {drawFunctionPatternsWith(newQRCode(calls[c].plan.Version,
                                                  calls[c].plan.ErrorCorrectionLevel),
                                        static)} :
       /\ symbols' = [symbols EXCEPT ![ownSymbol(c)] = q]
       /\ calls' = [calls EXCEPT ![c].symbol = ownSymbol(c),
                                 ![c].panic = q.panic,
                                 ![c].pc = IF q.panic # NoPanic THEN "aborted"
                                           ELSE "patterned"]
  /\ UNCHANGED <<static, segs, aloneVars,
               bitBuffer, dataBytes,
               eccVersion, eccData, eccResult,
               sym, symData, symTrace, symPatterned, symDrawn, symMask,
               balVersion, balBlack, balResult,
               mulX, mulY, mulResult>>

\* lines 157-158: the codewords of the symbol, drawn on its grid
CodewordsStep(c) ==
  /\ calls[c].pc = "patterned"
  /\ \E allCodeWords \in {addECCAndInterleaveWith(symbols[calls[c].symbol],
                                                  calls[c].dataCodeWords, static)} :
       IF allCodeWords.panic # NoPanic
       THEN /\ calls' = [calls EXCEPT ![c].panic = allCodeWords.panic,
                                      ![c].pc = "aborted"]
            /\ UNCHANGED symbols
       ELSE \E q \in {drawCodewords(symbols[calls[c].symbol], allCodeWords.bytes)} :
              /\ symbols' = [symbols EXCEPT ![calls[c].symbol] = q]
              /\ calls' = [calls EXCEPT ![c].allCodeWords = allCodeWords.bytes,
                                        ![c].panic = q.panic,
                                        ![c].pc = IF q.panic # NoPanic THEN "aborted"
                                                  ELSE "drawn"]
  /\ UNCHANGED <<static, segs, aloneVars,
               bitBuffer, dataBytes,
               eccVersion, eccData, eccResult,
               sym, symData, symTrace, symPatterned, symDrawn, symMask,
               balVersion, balBlack, balResult,
               mulX, mulY, mulResult>>

\* lines 159-163: the mask, and the symbol as the call returns it
MaskStep(c) ==
  /\ calls[c].pc = "drawn"
  /\ \E m \in {handleConstructorMasking(symbols[calls[c].symbol], calls[c].plan.mask)} :
       IF m.q.panic # NoPanic
       THEN /\ symbols' = [symbols EXCEPT ![calls[c].symbol] = m.q]
            /\ calls' = [calls EXCEPT ![c].panic = m.q.panic, ![c].pc = "aborted"]
       ELSE /\ symbols' = [symbols EXCEPT ![calls[c].symbol] = finishSymbol(m.q, m.mask)]
            /\ calls' = [calls EXCEPT ![c].pc = "returned"]
  /\ UNCHANGED <<static, segs, aloneVars,
               bitBuffer, dataBytes,
               eccVersion, eccData, eccResult,
               sym, symData, symTrace, symPatterned, symDrawn, symMask,
               balVersion, balBlack, balResult,
               mulX, mulY, mulResult>>

NextShared ==
  \E c \in Calls :
    \/ DataStep(c)
    \/ PatternsStep(c)
    \/ CodewordsStep(c)
    \/ MaskStep(c)

SpecShared == InitShared /\ [][NextShared]_vars

(***************************************************************************)
(* What the options of a call ask for, as the documentation of the options *)
(* reads: the last option of a kind wins, the default applies without one. *)
(***************************************************************************)
RECURSIVE lastArg(_, _, _, _)
lastArg(opts, name, i, default) ==
  IF i = 0 THEN default
  ELSE IF opts[i].opt = name THEN opts[i].arg
  ELSE lastArg(opts, name, i - 1, default)

requestedMin(opts) == lastArg(opts, "WithMinVersion", Len(opts), 1)
requestedMax(opts) == lastArg(opts, "WithMaxVersion", Len(opts), 40)
requestedBoost(opts) == lastArg(opts, "WithBoostECL", Len(opts), 1) = 1

boundsValid(opts) ==
  1 <= requestedMin(opts) /\ requestedMin(opts) <= requestedMax(opts)
    /\ requestedMax(opts) <= 40

\* The segments fit version v at level e.
fits(ss, e, v) ==
  getTotalBits(ss, v) # -1 /\ getTotalBits(ss, v) <= numDataCodewords(e, v) * 8

returned == pc = "returned"
accepted == pc = "returned" /\ result.err = "none"

(***************************************************************************)
(* C1: with default options, EncodeSegments succeeds whenever some version *)
(* 1..40 holds the segments at the requested level, and the version it     *)
(* returns is the smallest such version; a sentinel at a small version     *)
(* does not keep it from accepting a larger one.                           *)
(***************************************************************************)
C1_SmallestVersion ==
  (returned /\ options = <<>>) =>
    LET fit == {v \in Versions : fits(segs, ecl, v)}
    IN  /\ fit # {} => result.err = "none"
        /\ result.err = "none" =>
             /\ result.Version \in fit
             /\ \A v \in fit : result.Version <= v

\* A default call that passes a sentinel at version 1 and accepts a larger
\* version.
C1_Witness ==
  /\ accepted /\ options = <<>>
  /\ getTotalBits(segs, 1) = -1
  /\ result.Version > 9

(***************************************************************************)
(* C2: for WithMinVersion(a) and WithMaxVersion(b) with 1 <= a <= b <= 40, *)
(* every returned symbol has a <= Version <= b.                            *)
(***************************************************************************)
C2_VersionWithinBounds ==
  (accepted /\ boundsValid(options)) =>
    /\ requestedMin(options) <= result.Version
    /\ result.Version <= requestedMax(options)

(***************************************************************************)
(* C3: if the segments fit no version of the requested range at the        *)
(* requested level, EncodeSegments returns an error and no symbol: the     *)
(* capacity error with the bits needed and the capacity at the largest     *)
(* allowed version, or "data too long" when getTotalBits returned the      *)
(* sentinel there.                                                         *)
(***************************************************************************)
C3_NoFitIsAnError ==
  (returned /\ boundsValid(options) /\ result.err # ErrMask
     /\ \A v \in requestedMin(options)..requestedMax(options) : ~fits(segs, ecl, v)) =>
    LET top == requestedMax(options)
    IN  IF getTotalBits(segs, top) = -1
        THEN result.err = ErrTooLong
        ELSE /\ result.err = ErrCapacity
             /\ result.dataUsedBits = getTotalBits(segs, top)
             /\ result.dataCapacityBits = numDataCodewords(ecl, top) * 8

(***************************************************************************)
(* C4: EncodeSegments returns the configuration error whenever the bounds  *)
(* asked for do not satisfy 1 <= min <= max <= 40.                         *)
(***************************************************************************)
C4_BadBoundsAreAnError ==
  (returned /\ ~boundsValid(options)) => result.err = ErrVersions

(***************************************************************************)
(* C5: with boosting on, the level of the returned symbol is the highest   *)
(* level whose capacity at the chosen version holds the segments, and it   *)
(* is never below the requested level; with boosting off it is the         *)
(* requested level.                                                        *)
(***************************************************************************)
C5_BoostedLevel ==
  accepted =>
    LET levelsThatFit ==
          {l \in Levels :
             getTotalBits(segs, result.Version) <= numDataCodewords(l, result.Version) * 8}
    IN  IF requestedBoost(options)
        THEN /\ result.ErrorCorrectionLevel \in levelsThatFit
             /\ \A l \in levelsThatFit : l <= result.ErrorCorrectionLevel
             /\ result.ErrorCorrectionLevel >= ecl
        ELSE result.ErrorCorrectionLevel = ecl

\* A boosted call that asked for Quartile: the loop passes Medium, below the
\* request, and ends at High.
C5_Witness ==
  /\ accepted /\ requestedBoost(options)
  /\ ecl = Quartile
  /\ result.ErrorCorrectionLevel = High
  /\ result.Version > 1

(***************************************************************************)
(* C6: the bits of the segments never exceed the data capacity of the      *)
(* version and final level of a returned symbol.                           *)
(***************************************************************************)
C6_FitsAcceptedPair ==
  accepted =>
    getTotalBits(segs, result.Version)
      <= numDataCodewords(result.ErrorCorrectionLevel, result.Version) * 8

\* A call whose level was raised from Low to Medium and no further, because
\* the segments do not fit Quartile.
C6_Witness ==
  /\ accepted
  /\ ecl = Low /\ result.ErrorCorrectionLevel = Medium
  /\ getTotalBits(segs, result.Version) > numDataCodewords(Quartile, result.Version) * 8

(***************************************************************************)
(* The bit total as the specification states it.  The width of the count   *)
(* field is the mode's entry for the ranges 1-9, 10-26 and 27-40.  The sum *)
(* is taken in two halves, multiples of 2^16 and the rest, so that whether *)
(* it exceeds 2^31-1 is decided without leaving 32 bits.                   *)
(***************************************************************************)
widthByRange(m, v) ==
  IF v <= 9 THEN m.numBits[1] ELSE IF v <= 26 THEN m.numBits[2] ELSE m.numBits[3]

segBits(seg, v) == 4 + widthByRange(seg.Mode, v) + seg.DataLen

RECURSIVE sumHigh(_, _, _)
sumHigh(ss, v, i) ==
  IF i = 0 THEN 0 ELSE sumHigh(ss, v, i - 1) + (segBits(ss[i], v) \div 65536)

RECURSIVE sumLow(_, _, _)
sumLow(ss, v, i) ==
  IF i = 0 THEN 0 ELSE sumLow(ss, v, i - 1) + (segBits(ss[i], v) % 65536)

sumExceedsInt32(ss, v) ==
  sumHigh(ss, v, Len(ss)) + (sumLow(ss, v, Len(ss)) \div 65536) >= 32768

countTooLarge(ss, v) ==
  \E i \in 1..Len(ss) : ss[i].NumChars >= 2 ^ widthByRange(ss[i].Mode, v)

(***************************************************************************)
(* C10: getTotalBits returns -1 if some segment's character count does not *)
(* fit the count field of its mode at the version or if the sum exceeds    *)
(* 2^31-1, and otherwise the sum over the segments of 4 + field width +    *)
(* len(Data); for the empty list it returns 0 at every version.            *)
(***************************************************************************)
C10_TotalBits ==
  returned =>
    /\ tbVersion \in Versions
    /\ IF countTooLarge(segs, tbVersion) \/ sumExceedsInt32(segs, tbVersion)
       THEN tbResult = -1
       ELSE tbResult = sumHigh(segs, tbVersion, Len(segs)) * 65536
                         + sumLow(segs, tbVersion, Len(segs))
    /\ segs = <<>> => tbResult = 0

\* Two segments whose counts fit their fields at a version of the middle
\* range, one count at the limit of the lowest range, give the sum.
C10_Witness ==
  /\ returned /\ tbVersion = 10 /\ Len(segs) = 2
  /\ segs[1].NumChars = 1024 /\ segs[2].Mode = Byte
  /\ tbResult = 4 + 12 + 3414 + 4 + 16 + 32744

(***************************************************************************)
(* Divisibility by the generator, stated through its roots: the generator  *)
(* of degree d is the product of (x - 2^i) for i in 0..d-1, so a           *)
(* polynomial is a multiple of it exactly if it is 0 at each 2^i.  bytes   *)
(* holds the coefficients from the highest power down.                     *)
(***************************************************************************)
RECURSIVE fieldPower(_, _)
fieldPower(x, n) ==
  IF n = 0 THEN 1
  ELSE LET p == fieldPower(x, n - 1)
       IN  CASE p = p -> reedSolomonMultiply(p, x)

RECURSIVE evalAt(_, _, _)
evalAt(bytes, x, k) ==
  IF k = 0 THEN 0
  ELSE LET higher == evalAt(bytes, x, k - 1)
       IN  CASE higher = higher -> Xor(reedSolomonMultiply(higher, x), bytes[k])

divisibleByGenerator(bytes, d) ==
  \A i \in 0..(d - 1) :
     LET root == fieldPower(2, i)
     IN  CASE root = root -> evalAt(bytes, root, Len(bytes)) = 0

(***************************************************************************)
(* C9: the remainder of a data block under the generator of degree d has   *)
(* exactly d bytes, and the data followed by the remainder is divisible by *)
(* the generator: the remainder computed over it is d zero bytes.  Data of *)
(* zeros gives a remainder of zeros; the data [0, 1] gives the generator's *)
(* own coefficients.                                                       *)
(***************************************************************************)
C9_RemainderDivides ==
  returned =>
    LET codeword == rsData \o rsRemainder
        divisor == reedSolomonComputeDivisor(rsDegree)
    IN  /\ Len(rsRemainder) = rsDegree
        /\ \A i \in 1..rsDegree : rsRemainder[i] \in 0..255
        /\ divisibleByGenerator(codeword, rsDegree)
        /\ reedSolomonComputeRemainder(codeword, divisor) = zeroBytes(rsDegree)
        /\ (\A k \in 1..Len(rsData) : rsData[k] = 0) => rsRemainder = zeroBytes(rsDegree)
        /\ rsData = <<0, 1>> => rsRemainder = divisor

\* A block of three bytes, not all zero, under the generator of degree 7 (the
\* block ECC length of version 1 at Low), with a remainder that is not zero.
C9_Witness ==
  /\ returned /\ rsDegree = 7
  /\ rsData = <<255, 142, 1>>
  /\ rsRemainder # zeroBytes(7)

(***************************************************************************)
(* The mask the options of a call ask for: the last of WithMask and        *)
(* WithAutoMask wins, and without either the mask is chosen automatically. *)
(***************************************************************************)
RECURSIVE requestedMask(_, _)
requestedMask(opts, i) ==
  IF i = 0 THEN -1
  ELSE IF opts[i].opt = "WithMask" THEN opts[i].arg
  ELSE IF opts[i].opt = "WithAutoMask" THEN -1
  ELSE requestedMask(opts, i - 1)

\* The last mask option of the call is a WithMask.
RECURSIVE maskGiven(_, _)
maskGiven(opts, i) ==
  IF i = 0 THEN FALSE
  ELSE IF opts[i].opt = "WithMask" THEN TRUE
  ELSE IF opts[i].opt = "WithAutoMask" THEN FALSE
  ELSE maskGiven(opts, i - 1)

\* EncodeSegments returned a symbol.
encoded == pc = "returned" /\ result.err = "none" /\ panic = NoPanic

\* The symbol as it stood before masking, as the drawing operations take it.
unmaskedSymbol ==
  [Version |-> masking.unmasked.Version,
   Size |-> masking.unmasked.Size,
   ErrorCorrectionLevel |-> masking.unmasked.ErrorCorrectionLevel,
   Mask |-> masking.unmasked.Mask,
   Modules |-> masking.unmasked.Modules,
   IsFunction |-> masking.unmasked.IsFunction,
   panic |-> NoPanic]

\* penalty(i): the score of the unmasked symbol under mask i with the format
\* bits of mask i.
penaltyOf(i) == getPenaltyScore(drawFormatBits(applyMask(unmaskedSymbol, i), i)).score

(***************************************************************************)
(* C7: with automatic masking, the mask of the returned symbol has the     *)
(* lowest penalty of the masks 0..7, each scored on the same unmasked      *)
(* symbol with its own format bits, and it is the lowest index among the   *)
(* masks of that penalty.                                                  *)
(***************************************************************************)
C7_LowestPenaltyMask ==
  (encoded /\ requestedMask(options, Len(options)) = -1) =>
    LET pen == [i \in 0..7 |-> penaltyOf(i)]
    IN  CASE pen = pen ->
          /\ qr.Mask \in 0..7
          /\ \A i \in 0..7 : pen[qr.Mask] <= pen[i]
          /\ \A i \in 0..7 : pen[i] = pen[qr.Mask] => qr.Mask <= i

\* An automatic choice between two masks of the same lowest penalty, neither
\* of them mask 0.
C7_Witness ==
  /\ encoded
  /\ requestedMask(options, Len(options)) = -1
  /\ Len(masking.trials) = 8
  /\ \E i \in 1..7, j \in 1..7 :
       /\ i < j
       /\ masking.trials[i + 1] = masking.trials[j + 1]
       /\ \A k \in 0..7 : masking.trials[i + 1] <= masking.trials[k + 1]
       /\ qr.Mask = i

(***************************************************************************)
(* C8: with WithMask(m), a mask m in 0..7 is applied without any mask      *)
(* being evaluated and is the Mask of the returned symbol; m = -1 is not   *)
(* an error and makes the automatic choice run; any other m gives a        *)
(* configuration error and no symbol; and EncodeSegments never ends in the *)
(* abort "illegal mask value".                                             *)
(***************************************************************************)
C8_GivenMask ==
  (pc = "returned" /\ maskGiven(options, Len(options))) =>
    LET m == requestedMask(options, Len(options))
    IN  /\ panic # "illegal mask value"
        /\ (m \in 0..7 /\ encoded) => (masking.trials = <<>> /\ qr.Mask = m)
        /\ m \in -1..7 => result.err # ErrMask
        /\ (m = -1 /\ encoded) => Len(masking.trials) = 8
        /\ m \notin -1..7 =>
             /\ result.err \in {ErrMask, ErrVersions}
             /\ qr = NilQRCode
             /\ panic = NoPanic

\* A symbol returned with the mask that WithMask gave, none evaluated.
C8_Witness ==
  /\ encoded
  /\ maskGiven(options, Len(options))
  /\ requestedMask(options, Len(options)) \in 0..7
  /\ qr.Mask = requestedMask(options, Len(options))
  /\ masking.trials = <<>>

(***************************************************************************)
(* What the makers are to give, written from the formats themselves.       *)
(***************************************************************************)
\* value in a field of width bits, the most significant bit first
binary(value, width) == [j \in 1..width |-> (value \div (2 ^ (width - j))) % 2]

isDigit(c) == c \in 48..57
digitOf(c) == c - 48

\* The position of a character in "0-9 A-Z space $ % * + - . / :", or -1.
alphabetIndex(c) ==
  IF c \in 48..57 THEN c - 48
  ELSE IF c \in 65..90 THEN c - 65 + 10
  ELSE CASE c = 32 -> 36 [] c = 36 -> 37 [] c = 37 -> 38 [] c = 42 -> 39
         [] c = 43 -> 40 [] c = 45 -> 41 [] c = 46 -> 42 [] c = 47 -> 43
         [] c = 58 -> 44 [] OTHER -> -1

RECURSIVE numericBits(_)
numericBits(t) ==
  IF Len(t) = 0 THEN <<>>
  ELSE IF Len(t) = 1 THEN binary(digitOf(t[1]), 4)
  ELSE IF Len(t) = 2 THEN binary(digitOf(t[1]) * 10 + digitOf(t[2]), 7)
  ELSE binary(digitOf(t[1]) * 100 + digitOf(t[2]) * 10 + digitOf(t[3]), 10)
         \o numericBits(SubSeq(t, 4, Len(t)))

RECURSIVE alphanumericBits(_)
alphanumericBits(t) ==
  IF Len(t) = 0 THEN <<>>
  ELSE IF Len(t) = 1 THEN binary(alphabetIndex(t[1]), 6)
  ELSE binary(45 * alphabetIndex(t[1]) + alphabetIndex(t[2]), 11)
         \o alphanumericBits(SubSeq(t, 3, Len(t)))

RECURSIVE byteBits(_)
byteBits(t) ==
  IF Len(t) = 0 THEN <<>> ELSE binary(t[1], 8) \o byteBits(SubSeq(t, 2, Len(t)))

madeBy(fn) == pc = "returned" /\ made.fn = fn

(***************************************************************************)
(* C11: for a text of n digits MakeNumeric returns a Numeric segment with  *)
(* NumChars n and 10*floor(n/3) + (0, 4, 7) bits: each group of 3 digits   *)
(* as the 10-bit binary of its decimal value, most significant bit first,  *)
(* a last group of 2 digits in 7 bits or of 1 digit in 4 bits; a text with *)
(* a character that is not a digit aborts and gives no segment.            *)
(***************************************************************************)
C11_NumericSegment ==
  madeBy("MakeNumeric") =>
    IF \A i \in 1..Len(text) : isDigit(text[i])
    THEN /\ made.panic = NoPanic
         /\ Len(made.segs) = 1
         /\ made.segs[1].Mode = Numeric
         /\ made.segs[1].NumChars = Len(text)
         /\ Len(made.segs[1].Data)
              = 10 * (Len(text) \div 3) + <<0, 4, 7>>[(Len(text) % 3) + 1]
         /\ made.segs[1].Data = numericBits(text)
    ELSE made.panic # NoPanic /\ made.segs = <<>>

\* "0079": a group with leading zeros kept in its ten bits, then one digit
\* in four bits.
C11_Witness ==
  /\ madeBy("MakeNumeric")
  /\ text = <<48, 48, 55, 57>>
  /\ made.segs # <<>>
  /\ made.segs[1].Data = <<0, 0, 0, 0, 0, 0, 0, 1, 1, 1, 1, 0, 0, 1>>

(***************************************************************************)
(* C12: for a text of n characters of the 45-character alphabet            *)
(* MakeAlphanumeric returns an Alphanumeric segment with NumChars n and    *)
(* 11*floor(n/2) + 6*(n mod 2) bits: each pair as the 11-bit value of      *)
(* 45*index(first) + index(second), a last single character as its 6-bit   *)
(* index; every pair value fits its 11 bits; a text with another character *)
(* aborts.                                                                 *)
(***************************************************************************)
C12_AlphanumericSegment ==
  madeBy("MakeAlphanumeric") =>
    IF \A i \in 1..Len(text) : alphabetIndex(text[i]) # -1
    THEN /\ made.panic = NoPanic
         /\ Len(made.segs) = 1
         /\ made.segs[1].Mode = Alphanumeric
         /\ made.segs[1].NumChars = Len(text)
         /\ Len(made.segs[1].Data) = 11 * (Len(text) \div 2) + 6 * (Len(text) % 2)
         /\ made.segs[1].Data = alphanumericBits(text)
         /\ \A i \in 1..(Len(text) - 1) :
              45 * alphabetIndex(text[i]) + alphabetIndex(text[i + 1]) < 2 ^ 11
    ELSE made.panic # NoPanic /\ made.segs = <<>>

\* "::A": the largest pair value, 2024, then 'A' as 001010.
C12_Witness ==
  /\ madeBy("MakeAlphanumeric")
  /\ text = <<58, 58, 65>>
  /\ made.segs # <<>>
  /\ made.segs[1].Data = <<1, 1, 1, 1, 1, 1, 0, 1, 0, 0, 0, 0, 0, 1, 0, 1, 0>>

(***************************************************************************)
(* C13: MakeECI(v) returns an ECI segment with NumChars 0 and 8 bits (the  *)
(* value) for 0 <= v < 2^7, 16 bits (10, then the value in 14 bits) for    *)
(* 2^7 <= v < 2^14, 24 bits (110, then the value in 21 bits) for           *)
(* 2^14 <= v < 1,000,000; for v >= 1,000,000 it returns a range error and  *)
(* no segment.                                                             *)
(***************************************************************************)
C13_ECISegment ==
  (madeBy("MakeECI") /\ assignValue >= 0) =>
    IF assignValue >= 1000000
    THEN made.err = ErrECI /\ made.segs = <<>> /\ made.panic = NoPanic
    ELSE /\ made.err = "none" /\ made.panic = NoPanic
         /\ Len(made.segs) = 1
         /\ made.segs[1].Mode = ECI
         /\ made.segs[1].NumChars = 0
         /\ made.segs[1].Data =
              (IF assignValue < 2 ^ 7 THEN binary(assignValue, 8)
               ELSE IF assignValue < 2 ^ 14 THEN <<1, 0>> \o binary(assignValue, 14)
               ELSE <<1, 1, 0>> \o binary(assignValue, 21))
         /\ Len(made.segs[1].Data) =
              (IF assignValue < 2 ^ 7 THEN 8 ELSE IF assignValue < 2 ^ 14 THEN 16 ELSE 24)

\* The first value of three bytes.
C13_Witness ==
  /\ madeBy("MakeECI")
  /\ assignValue = 2 ^ 14
  /\ made.segs # <<>>
  /\ Len(made.segs[1].Data) = 24
  /\ SubSeq(made.segs[1].Data, 1, 3) = <<1, 1, 0>>

(***************************************************************************)
(* C14: MakeSegments returns no segment for the empty text and otherwise   *)
(* one segment over the whole text: Numeric if every character is a digit, *)
(* else Alphanumeric if every character is of the alphabet, else Byte over *)
(* the bytes of the text; it never ends in the abort of MakeNumeric or of  *)
(* MakeAlphanumeric.                                                       *)
(***************************************************************************)
C14_ChosenMode ==
  madeBy("MakeSegments") =>
    /\ made.panic = NoPanic
    /\ IF Len(text) = 0 THEN made.segs = <<>>
       ELSE /\ Len(made.segs) = 1
            /\ made.segs[1].NumChars = Len(text)
            /\ IF \A i \in 1..Len(text) : isDigit(text[i])
               THEN made.segs[1].Mode = Numeric
                      /\ made.segs[1].Data = numericBits(text)
               ELSE IF \A i \in 1..Len(text) : alphabetIndex(text[i]) # -1
               THEN made.segs[1].Mode = Alphanumeric
                      /\ made.segs[1].Data = alphanumericBits(text)
               ELSE made.segs[1].Mode = Byte
                      /\ made.segs[1].Data = byteBits(text)

\* A text of digits and of other characters of the alphabet.
C14_Witness ==
  /\ madeBy("MakeSegments")
  /\ text = <<48, 45, 57, 65>>
  /\ made.segs # <<>>
  /\ made.segs[1].Mode = Alphanumeric
  /\ Len(made.segs[1].Data) = 22

(***************************************************************************)
(* C15: every symbol returned by EncodeSegments, EncodeText or             *)
(* EncodeBinary has 1 <= Version <= 40, Size = Version*4+17, Modules of    *)
(* Size rows of Size cells that are 0 or 1, Mask in 0..7 and no flag grid; *)
(* "SUDOKU://" followed by the 81 digits of the puzzle is encoded without  *)
(* error at level Low, as one text and as two segments.                    *)
(***************************************************************************)
C15_ReturnedSymbol ==
  /\ encoded =>
       /\ qr.Version \in 1..40
       /\ qr.Size = qr.Version * 4 + 17
       /\ qr.Size % 2 = 1 /\ qr.Size \in 21..177
       /\ DOMAIN qr.Modules = 0..(qr.Size - 1)
       /\ \A y \in 0..(qr.Size - 1) :
            /\ DOMAIN qr.Modules[y] = 0..(qr.Size - 1)
            /\ \A x \in 0..(qr.Size - 1) : qr.Modules[y][x] \in {0, 1}
       /\ qr.Mask \in 0..7
       /\ qr.IsFunction = <<>>
  /\ (pc = "returned" /\ text = SudokuPrefix \o SudokuDigits /\ ecl = Low
        /\ (made.fn = "EncodeText" \/ (made.fn = "EncodeSegments" /\ Len(segs) = 2
                                         /\ segs[1].NumChars = Len(SudokuPrefix)))) =>
       encoded

\* The puzzle encoded as two segments, an alphanumeric one and a numeric
\* one.
C15_Witness ==
  /\ encoded
  /\ text = SudokuPrefix \o SudokuDigits /\ ecl = Low
  /\ made.fn = "EncodeSegments"
  /\ Len(segs) = 2
  /\ segs[1].Mode = Alphanumeric /\ segs[1].NumChars = 9
  /\ segs[2].Mode = Numeric /\ segs[2].NumChars = 81
  /\ qr.Version = 3
  /\ qr.Size = 29

(***************************************************************************)
(* C16: alignmentPatternPositions[1] is empty; for every version v of      *)
(* 2..40 the list has floor(v/7)+2 strictly ascending positions, the first *)
(* is 6, the last is v*4+10, the positions after the first are separated   *)
(* by one constant even step, 26 for version 32, and every position fits   *)
(* in a byte; version 7 gives 6, 22, 38, version 32 gives 6, 34, 60, 86,   *)
(* 112, 138 and version 40 gives 6, 30, 58, 86, 114, 142, 170.             *)
(***************************************************************************)
C16_AlignmentPositions ==
  (pc = "returned" /\ alignResult.from # "none") =>
    LET p == alignResult.pos
        v == alignVersion
    IN  /\ v = 1 => p = <<>>
        /\ v > 1 =>
             /\ Len(p) = (v \div 7) + 2
             /\ p[1] = 6
             /\ p[Len(p)] = v * 4 + 10
             /\ \A i \in 1..(Len(p) - 1) : p[i] < p[i + 1]
             /\ \A i \in 1..Len(p) : p[i] \in 0..255
             /\ \E step \in 1..255 :
                  /\ step % 2 = 0
                  /\ v = 32 => step = 26
                  /\ \A i \in 2..(Len(p) - 1) : p[i + 1] - p[i] = step
        /\ v = 7 => p = <<6, 22, 38>>
        /\ v = 32 => p = <<6, 34, 60, 86, 112, 138>>
        /\ v = 40 => p = <<6, 30, 58, 86, 114, 142, 170>>

\* The entry of the table for version 32, whose step is not the step of the
\* formula.
C16_Witness ==
  /\ pc = "returned"
  /\ alignResult.from = "table"
  /\ alignVersion = 32
  /\ alignResult.pos = <<6, 34, 60, 86, 112, 138>>

(***************************************************************************)
(* What call c has come to, and what a call with its arguments comes to    *)
(* when it runs from start to end with no other call.                      *)
(***************************************************************************)
ended(c) == calls[c].pc \in {"returned", "aborted"}

outcome(c) ==
  [err |-> calls[c].err, panic |-> calls[c].panic,
   qr |-> IF calls[c].pc = "returned" /\ calls[c].err = "none"
          THEN symbols[calls[c].symbol] ELSE NilQRCode]

alone(c) ==
  after(encodeSegments(segs, calls[c].ecl, calls[c].options),
        LAMBDA r : [err |-> r.plan.err, panic |-> r.panic, qr |-> r.qr])

(***************************************************************************)
(* C17: no step of an encode call writes the tables of the package or the  *)
(* segments of the caller, and no two calls work on the same symbol; so,   *)
(* however the steps of the calls interleave, a call that has ended has    *)
(* the error or the version, level, mask and modules it has when it runs   *)
(* alone, and two calls with the same arguments end with the same result.  *)
(***************************************************************************)
C17_CallsDoNotInterfere ==
  /\ [][static' = static /\ segs' = segs]_vars
  /\ [](static = staticTables)
  /\ [](\A c, d \in Calls :
          (c # d /\ calls[c].symbol # 0 /\ calls[d].symbol # 0) =>
            calls[c].symbol # calls[d].symbol)
  /\ [](\A c \in Calls : ended(c) => outcome(c) = alone(c))
  /\ [](\A c, d \in Calls :
          (ended(c) /\ ended(d) /\ calls[c].ecl = calls[d].ecl
             /\ calls[c].options = calls[d].options) =>
            outcome(c) = outcome(d))

\* One call has returned its symbol of version 1 while another, on the same
\* segments, is half way through a symbol of version 2.
C17_Witness ==
  \E c, d \in Calls :
    /\ calls[c].pc = "returned" /\ calls[c].err = "none"
    /\ symbols[calls[c].symbol].Version = 1
    /\ calls[d].pc = "drawn"
    /\ symbols[calls[d].symbol].Version = 2

(***************************************************************************)
(* The bit string of a list of segments at a version, and what follows it  *)
(* up to a capacity, written from the layout of a QR code's data.          *)
(***************************************************************************)
\* The width of the character count of a mode: one for versions 1 to 9, one
\* for 10 to 26, one for 27 to 40.
countWidth(mode, version) ==
  mode.numBits[IF version <= 9 THEN 1 ELSE IF version <= 26 THEN 2 ELSE 3]

RECURSIVE segmentsBits(_, _)
segmentsBits(ss, version) ==
  IF Len(ss) = 0 THEN <<>>
  ELSE binary(ss[1].Mode.modeBits, 4)
         \o binary(ss[1].NumChars, countWidth(ss[1].Mode, version))
         \o ss[1].Data
         \o segmentsBits(Tail(ss), version)

zeroBits(n) == [i \in 1..n |-> 0]

\* n bits of the bytes 0xEC, 0x11, 0xEC, ...
padBytesBits(n) ==
  [i \in 1..n |-> binary(IF ((i - 1) \div 8) % 2 = 0 THEN 236 ELSE 17, 8)[((i - 1) % 8) + 1]]

layout(ss, version, capacity) ==
  LET payload == segmentsBits(ss, version)
      terminator == zeroBits(IF capacity - Len(payload) < 4
                             THEN capacity - Len(payload) ELSE 4)
      toByte == zeroBits((8 - ((Len(payload) + Len(terminator)) % 8)) % 8)
      head == payload \o terminator \o toByte
  IN  head \o padBytesBits(capacity - Len(head))

(***************************************************************************)
(* C18: for every accepted input the bit string of EncodeSegments is, for  *)
(* each segment in order, the 4-bit mode indicator, the character count in *)
(* the width of the mode at the chosen version and the payload; then       *)
(* min(4, capacity - length) zero bits; then zero bits up to a multiple of *)
(* 8; then the bytes 0xEC, 0x11, 0xEC, ... up to the capacity, which is    *)
(* numDataCodewords[level][version] * 8 for the final level; and the data  *)
(* codewords are its bits, eight to a byte, the first bit the highest.     *)
(***************************************************************************)
C18_DataBitString ==
  accepted =>
    LET capacity == numDataCodewords(result.ErrorCorrectionLevel, result.Version) * 8
    IN  /\ panic = NoPanic
        /\ bitBuffer = layout(segs, result.Version, capacity)
        /\ Len(bitBuffer) = capacity
        /\ Len(dataBytes) = numDataCodewords(result.ErrorCorrectionLevel, result.Version)
        /\ \A n \in 1..Len(dataBytes) :
             dataBytes[n] = bitBuffer[8 * n - 7] * 128 + bitBuffer[8 * n - 6] * 64
                            + bitBuffer[8 * n - 5] * 32 + bitBuffer[8 * n - 4] * 16
                            + bitBuffer[8 * n - 3] * 8 + bitBuffer[8 * n - 2] * 4
                            + bitBuffer[8 * n - 1] * 2 + bitBuffer[8 * n]

\* 41 digits at version 1 and level Low: 151 bits of 152, so the terminator
\* is one bit, and there is no pad byte.
C18_Witness ==
  /\ accepted /\ panic = NoPanic
  /\ Len(segs) = 1 /\ segs[1].Mode = Numeric /\ segs[1].NumChars = 41
  /\ result.Version = 1 /\ result.ErrorCorrectionLevel = Low
  /\ Len(segmentsBits(segs, 1)) = 151
  /\ Len(bitBuffer) = 152
  /\ bitBuffer[152] = 0

(***************************************************************************)
(* The blocks of a symbol of level e and version v, from the tables: how   *)
(* many there are, how many are short, and the data bytes of block i,      *)
(* counted from 1.                                                         *)
(***************************************************************************)
blockCount(e, v) == numErrorCorrectionBlocks[e + 1][v]
eccLength(e, v) == eccCodeWordsPerBlock[e + 1][v]
rawCodewordCount(v) == numRawDataModules(v) \div 8
shortBlockCount(e, v) == blockCount(e, v) - (rawCodewordCount(v) % blockCount(e, v))
shortBlockLength(e, v) == rawCodewordCount(v) \div blockCount(e, v)
shortDataLength(e, v) == shortBlockLength(e, v) - eccLength(e, v)

blockDataLength(e, v, i) ==
  shortDataLength(e, v) + (IF i > shortBlockCount(e, v) THEN 1 ELSE 0)

\* The number of data bytes before block i.
blockDataStart(e, v, i) ==
  (i - 1) * shortDataLength(e, v)
    + (IF i - 1 > shortBlockCount(e, v) THEN i - 1 - shortBlockCount(e, v) ELSE 0)

blockData(data, e, v, i) ==
  SubSeq(data, blockDataStart(e, v, i) + 1,
         blockDataStart(e, v, i) + blockDataLength(e, v, i))

blocksBuilt == pc = "returned" /\ eccVersion # 0

(***************************************************************************)
(* C19: for every level and version the data lengths of the blocks, the    *)
(* short ones first and the others one byte longer, are at least 1 and sum *)
(* to numDataCodewords, and reedSolomonDivisors has an entry of length     *)
(* eccLen; and the blocks addECCAndInterleave builds start with the data   *)
(* codewords taken in order, without gap or overlap, and end with the      *)
(* remainder of their own data under that entry.                           *)
(***************************************************************************)
C19_Blocks ==
  /\ \A e \in Levels, v \in Versions :
       /\ shortBlockCount(e, v) \in 1..blockCount(e, v)
       /\ shortDataLength(e, v) >= 1
       /\ blockDataStart(e, v, blockCount(e, v) + 1) = numDataCodewords(e, v)
       /\ eccLength(e, v) \in DOMAIN reedSolomonDivisors
       /\ Len(reedSolomonDivisors[eccLength(e, v)]) = eccLength(e, v)
  /\ blocksBuilt =>
       /\ eccResult.panic = NoPanic
       /\ Len(eccResult.blocks) = blockCount(ecl, eccVersion)
       /\ \A i \in 1..Len(eccResult.blocks) :
            LET block == eccResult.blocks[i]
                dat == blockData(eccData, ecl, eccVersion, i)
            IN  /\ Len(dat) = blockDataLength(ecl, eccVersion, i)
                /\ SubSeq(block, 1, Len(dat)) = dat
                /\ SubSeq(block, Len(block) - eccLength(ecl, eccVersion) + 1, Len(block))
                     = reedSolomonComputeRemainder(
                         dat, reedSolomonDivisors[eccLength(ecl, eccVersion)])
                /\ Len(block) >= Len(dat) + eccLength(ecl, eccVersion)

\* Version 5 at level Quartile: two short blocks of 15 data bytes, then two
\* blocks of 16.
C19_Witness ==
  /\ blocksBuilt
  /\ eccVersion = 5 /\ ecl = Quartile
  /\ Len(eccResult.blocks) = 4
  /\ shortBlockCount(ecl, eccVersion) = 2
  /\ SubSeq(eccResult.blocks[3], 1, 16) = SubSeq(eccData, 31, 46)

\* Where byte i of block j goes, both counted from 0: the bytes before it
\* are those of the rows above and of the blocks before it in its row, less
\* the padding bytes of the short blocks.
interleavedIndex(e, v, i, j) ==
  i * blockCount(e, v) + j
    - (IF i >= shortDataLength(e, v) THEN shortBlockCount(e, v) ELSE 0)

isPadding(e, v, i, j) == i = shortDataLength(e, v) /\ j < shortBlockCount(e, v)

(***************************************************************************)
(* C20: for every level and version the bytes of the blocks, without the   *)
(* padding bytes of the short blocks, are floor(numRawDataModules/8) in    *)
(* number; and the sequence addECCAndInterleave returns has that length,   *)
(* every position of it written once, and holds byte i of block j where    *)
(* the order by ascending i, and by ascending j for one i, places it, so   *)
(* that every position holds one byte of one block and no padding byte.    *)
(***************************************************************************)
C20_Interleave ==
  /\ \A e \in Levels, v \in Versions :
       (shortBlockLength(e, v) + 1) * blockCount(e, v) - shortBlockCount(e, v)
         = rawCodewordCount(v)
  /\ blocksBuilt =>
       LET e == ecl
           v == eccVersion
           cells == {c \in (0..shortBlockLength(e, v)) \X (0..(blockCount(e, v) - 1)) :
                       ~isPadding(e, v, c[1], c[2])}
       IN  /\ eccResult.panic = NoPanic
           /\ Len(eccResult.bytes) = numRawDataModules(v) \div 8
           /\ eccResult.written = Len(eccResult.bytes)
           /\ \A c \in cells :
                eccResult.bytes[interleavedIndex(e, v, c[1], c[2]) + 1]
                  = eccResult.blocks[c[2] + 1][c[1] + 1]
           /\ \A k \in 0..(Len(eccResult.bytes) - 1) :
                Cardinality({c \in cells : interleavedIndex(e, v, c[1], c[2]) = k}) = 1
           /\ \A c, d \in cells :
                (c[1] < d[1] \/ (c[1] = d[1] /\ c[2] < d[2])) =>
                  interleavedIndex(e, v, c[1], c[2]) < interleavedIndex(e, v, d[1], d[2])

\* Version 5 at level High: after the 11 data bytes of each of the four
\* blocks comes byte 11 of the two long blocks only.
C20_Witness ==
  /\ blocksBuilt
  /\ eccVersion = 5 /\ ecl = High
  /\ Len(eccResult.bytes) = 134
  /\ eccResult.bytes[45] = eccData[34]
  /\ eccResult.bytes[46] = eccData[46]
  /\ eccResult.bytes[47] = eccResult.blocks[1][13]

(***************************************************************************)
(* The cells of the symbol under construction, as pairs <<y, x>>, and what *)
(* drawCodewords did with them.                                            *)
(***************************************************************************)
cellsOf(q) == (0..(q.Size - 1)) \X (0..(q.Size - 1))

nonFunctionCells(q) == {c \in cellsOf(q) : ~q.IsFunction[c[1]][c[2]]}

patterned == pc # "idle" /\ pc # "new"
drew == pc \in {"drawn", "masked", "restored", "finished"}

visitOf(c) == symTrace.trace[c[1]][c[2]].visit
bitOf(c) == symTrace.trace[c[1]][c[2]].bit

visitedCells == {c \in cellsOf(symDrawn) : visitOf(c) >= 0}
writtenCells == {c \in cellsOf(symDrawn) : bitOf(c) >= 0}

(***************************************************************************)
(* C21, as stated: the non-function cells the traversal of drawCodewords   *)
(* visits are len(data)*8 in number.                                       *)
(***************************************************************************)
C21_VisitedCellsEqualBits ==
  drew => Cardinality(visitedCells \cap nonFunctionCells(symDrawn)) = Len(symData) * 8

(***************************************************************************)
(* C21, amended: the cells drawCodewords writes a bit to are non-function  *)
(* cells and are len(data)*8 in number, the value of i when the loops end, *)
(* and the call aborts exactly when i is another number; the non-function  *)
(* cells it visits are at least as many, for the symbol of every version   *)
(* has room for its codewords outside column 6.                            *)
(***************************************************************************)
C21_WrittenCellsEqualBits ==
  /\ patterned =>
       /\ \A y \in 0..(symPatterned.Size - 1) : symPatterned.IsFunction[y][6]
       /\ Cardinality(nonFunctionCells(symPatterned))
            >= 8 * (numRawDataModules(symPatterned.Version) \div 8)
  /\ drew =>
       /\ symDrawn.panic = "incorrect length" <=> symTrace.i # Len(symData) * 8
       /\ symDrawn.panic = NoPanic
       /\ symTrace.i = Len(symData) * 8
       /\ Cardinality(writtenCells) = Len(symData) * 8
       /\ writtenCells \subseteq nonFunctionCells(symDrawn)
       /\ Cardinality(visitedCells \cap nonFunctionCells(symDrawn)) >= Len(symData) * 8

\* Version 2: 44 codewords, 352 bits written, and 359 non-function cells
\* visited.
C21_Witness ==
  /\ pc = "drawn"
  /\ symDrawn.Version = 2
  /\ symTrace.i = 352
  /\ Cardinality(writtenCells) = 352
  /\ Cardinality(visitedCells \cap nonFunctionCells(symDrawn)) = 359

(***************************************************************************)
(* C22: for every version the cells drawFunctionPatterns leaves unflagged  *)
(* are numRawDataModules[version] in number, 208 for version 1 and 29648   *)
(* for version 40; drawCodewords writes 8*floor(numRawDataModules/8) bits, *)
(* and the numRawDataModules mod 8 unflagged cells without a bit come last *)
(* in the traversal and are white when drawCodewords ends.                 *)
(***************************************************************************)
C22_RemainderCells ==
  /\ patterned =>
       /\ Cardinality(nonFunctionCells(symPatterned))
            = numRawDataModules(symPatterned.Version)
       /\ symPatterned.Version = 1 => Cardinality(nonFunctionCells(symPatterned)) = 208
       /\ symPatterned.Version = 40 => Cardinality(nonFunctionCells(symPatterned)) = 29648
  /\ drew =>
       LET raw == numRawDataModules(symDrawn.Version)
           leftover == nonFunctionCells(symDrawn) \ writtenCells
       IN  /\ Cardinality(writtenCells) = 8 * (raw \div 8)
           /\ Cardinality(leftover) = raw % 8
           /\ \A c \in leftover :
                /\ symDrawn.Modules[c[1]][c[2]] = 0
                /\ visitOf(c) >= 0
                /\ \A d \in writtenCells : visitOf(d) < visitOf(c)

\* Version 3 has 567 unflagged cells: 70 codewords and 7 cells left white.
C22_Witness ==
  /\ pc = "drawn"
  /\ symDrawn.Version = 3
  /\ Cardinality(nonFunctionCells(symPatterned)) = 567
  /\ Cardinality(writtenCells) = 560
  /\ Cardinality(nonFunctionCells(symDrawn) \ writtenCells) = 7

(***************************************************************************)
(* The cells of the two copies of the format information, as pairs         *)
(* <<y, x>>: bit i of the 15-bit word, the lowest being bit 0.             *)
(***************************************************************************)
firstFormatCell(i) ==
  IF i <= 5 THEN <<i, 8>>
  ELSE IF i = 6 THEN <<7, 8>>
  ELSE IF i = 7 THEN <<8, 8>>
  ELSE IF i = 8 THEN <<8, 7>>
  ELSE <<8, 14 - i>>

secondFormatCell(size, i) ==
  IF i < 8 THEN <<8, size - 1 - i>> ELSE <<size - 15 + i, 8>>

formatCells(size) ==
  {firstFormatCell(i) : i \in 0..14} \cup {secondFormatCell(size, i) : i \in 0..14}

functionCells(q) == {c \in cellsOf(q) : q.IsFunction[c[1]][c[2]]}

changedCells(q, p) == {c \in cellsOf(q) : q.Modules[c[1]][c[2]] # p.Modules[c[1]][c[2]]}

(***************************************************************************)
(* C23: from the end of drawFunctionPatterns on, the flags of the cells    *)
(* stay as they are; after drawCodewords and after applyMask every         *)
(* function cell has the value drawFunctionPatterns gave it, and in the    *)
(* symbol handleConstructorMasking leaves the function cells with another  *)
(* value are cells of the format information.                              *)
(***************************************************************************)
C23_FunctionCellsKept ==
  patterned =>
    /\ sym.panic = NoPanic
    /\ sym.IsFunction = symPatterned.IsFunction
    /\ pc \in {"drawn", "masked", "restored"} =>
         changedCells(sym, symPatterned) \cap functionCells(symPatterned) = {}
    /\ pc = "finished" =>
         (changedCells(sym, symPatterned) \cap functionCells(symPatterned))
           \subseteq formatCells(sym.Size)

\* A symbol of version 7 after applyMask with mask 0: cells have changed,
\* and none of them is a function cell.
C23_Witness ==
  /\ pc = "masked" /\ symMask = 0
  /\ sym.Version = 7
  /\ changedCells(sym, symDrawn) # {}
  /\ changedCells(sym, symPatterned) \cap functionCells(symPatterned) = {}

(***************************************************************************)
(* The place of cell <<y, x>> in a traversal by strips of two columns from *)
(* the right edge leftward that leaves column 6 out, takes the rows of the *)
(* first strip from the bottom up and turns round at every strip, and in a *)
(* row takes the right cell first.                                         *)
(***************************************************************************)
stripOf(size, x) == (size - 1 - (IF x < 6 THEN x + 1 ELSE x)) \div 2
leftInStrip(size, x) == (size - 1 - (IF x < 6 THEN x + 1 ELSE x)) % 2

placeInTraversal(size, y, x) ==
  stripOf(size, x) * 2 * size
    + 2 * (IF stripOf(size, x) % 2 = 0 THEN size - 1 - y ELSE y)
    + leftInStrip(size, x)

(***************************************************************************)
(* C24: the traversal of drawCodewords never visits a cell of column 6 and *)
(* visits every other cell once; it takes the strips of two columns from   *)
(* the right edge leftward, the right cell of a row before the left one,   *)
(* the first strip upward and every following strip in the direction       *)
(* opposite to the one before, also across column 6.                       *)
(***************************************************************************)
C24_Traversal ==
  drew =>
    /\ symTrace.n = symDrawn.Size * (symDrawn.Size - 1)
    /\ \A c \in cellsOf(symDrawn) :
         IF c[2] = 6 THEN visitOf(c) = -1
         ELSE visitOf(c) = placeInTraversal(symDrawn.Size, c[1], c[2])

\* Version 1: the traversal starts at the bottom right, goes up the strip
\* of columns 8 and 7, and comes down the strip of columns 5 and 4.
C24_Witness ==
  /\ pc = "drawn"
  /\ symDrawn.Size = 21
  /\ visitOf(<<20, 20>>) = 0 /\ visitOf(<<20, 19>>) = 1 /\ visitOf(<<19, 20>>) = 2
  /\ visitOf(<<0, 8>>) + 2 = visitOf(<<0, 5>>)
  /\ visitOf(<<1, 5>>) = visitOf(<<0, 5>>) + 2

(***************************************************************************)
(* The condition of mask pattern m of a QR code at row i and column j.     *)
(***************************************************************************)
maskCondition(m, i, j) ==
  <<(i + j) % 2 = 0,
    i % 2 = 0,
    j % 3 = 0,
    (i + j) % 3 = 0,
    ((i \div 2) + (j \div 3)) % 2 = 0,
    ((i * j) % 2) + ((i * j) % 3) = 0,
    (((i * j) % 2) + ((i * j) % 3)) % 2 = 0,
    (((i * j) % 3) + ((i + j) % 2)) % 2 = 0>>[m + 1]

maskedCells(q, m) == {c \in nonFunctionCells(q) : maskCondition(m, c[1], c[2])}

(***************************************************************************)
(* C25: for every mask 0..7, applyMask changes the value of the cells that *)
(* are not function cells and satisfy the condition of the mask, and of no *)
(* other cell; applied once more with the same mask it gives every cell    *)
(* the value it had.                                                       *)
(***************************************************************************)
C25_MaskFlips ==
  /\ pc = "masked" =>
       /\ sym.panic = NoPanic
       /\ changedCells(sym, symDrawn) = maskedCells(symDrawn, symMask)
       /\ \A c \in cellsOf(sym) : sym.Modules[c[1]][c[2]] \in {0, 1}
  /\ pc = "restored" =>
       /\ sym.panic = NoPanic
       /\ sym.Modules = symDrawn.Modules

\* Mask 4 applied twice to a symbol of version 2 with black and white
\* cells under the mask.
C25_Witness ==
  /\ pc = "restored" /\ symMask = 4
  /\ sym.Version = 2
  /\ sym.Modules = symDrawn.Modules
  /\ \E c, d \in maskedCells(symDrawn, 4) :
       sym.Modules[c[1]][c[2]] = 0 /\ sym.Modules[d[1]][d[2]] = 1

(***************************************************************************)
(* The 15-bit format information of a QR code, by level (L, M, Q, H) and   *)
(* mask pattern, as the standard lists it.                                 *)
(***************************************************************************)
formatInformation ==
  <<<<30660, 29427, 32170, 30877, 26159, 25368, 27713, 26998>>,
    <<21522, 20773, 24188, 23371, 17913, 16590, 20375, 19104>>,
    <<13663, 12392, 16177, 14854, 9396, 8579, 11994, 11245>>,
    <<5769, 5054, 7399, 6608, 1890, 597, 3340, 2107>>>>

bitAt(value, i) == (value \div (2 ^ i)) % 2

\* The bit drawCodewords wrote to cell c, or 0.
placedBit(c) ==
  IF bitOf(c) < 0 THEN 0
  ELSE bitAt(symData[(bitOf(c) \div 8) + 1], 7 - (bitOf(c) % 8))

(***************************************************************************)
(* C26: in the symbol handleConstructorMasking leaves, with the mask m it  *)
(* returns, every non-function cell holds the bit drawCodewords wrote to   *)
(* it, or 0 when it wrote none, inverted exactly where the condition of    *)
(* mask m holds, whether m was given or chosen after the eight trials; and *)
(* both copies of the format information hold the word of the level of    *)
(* the symbol and of mask m.                                               *)
(***************************************************************************)
C26_FinalMask ==
  pc = "finished" =>
    LET word == formatInformation[sym.ErrorCorrectionLevel + 1][symMask + 1]
    IN  /\ sym.panic = NoPanic
        /\ symMask \in 0..7
        /\ sym.Mask = symMask
        /\ \A c \in nonFunctionCells(symDrawn) :
             sym.Modules[c[1]][c[2]]
               = (placedBit(c) + bToI(maskCondition(symMask, c[1], c[2]))) % 2
        /\ \A i \in 0..14 :
             /\ sym.Modules[firstFormatCell(i)[1]][firstFormatCell(i)[2]] = bitAt(word, i)
             /\ sym.Modules[secondFormatCell(sym.Size, i)[1]][secondFormatCell(sym.Size, i)[2]]
                  = bitAt(word, i)

\* A symbol with remainder cells whose mask was chosen by the eight trials
\* and is neither the first nor the last of them.
C26_Witness ==
  /\ pc = "finished"
  /\ Len(symTrace.trials) = 8
  /\ symMask \in 1..6
  /\ sym.Version = 2
  /\ \E c \in nonFunctionCells(symDrawn) : bitOf(c) < 0 /\ sym.Modules[c[1]][c[2]] = 1

(***************************************************************************)
(* C27: the balance term is 10*k, where k is the smallest integer >= 0     *)
(* with (45 - 5k)% <= black/total <= (55 + 5k)% and total = Size*Size; k   *)
(* is never negative, for total is odd and black is never its half.        *)
(***************************************************************************)
C27_BalanceTerm ==
  (pc = "returned" /\ balVersion # 0) =>
    LET total == (balVersion * 4 + 17) * (balVersion * 4 + 17)
        within(k) == /\ (45 - 5 * k) * total <= 100 * balBlack
                     /\ 100 * balBlack <= (55 + 5 * k) * total
    IN  /\ total % 2 = 1
        /\ 2 * balBlack # total
        /\ balResult >= 0
        /\ balResult % 10 = 0
        /\ within(balResult \div 10)
        /\ \A k \in 0..((balResult \div 10) - 1) : ~within(k)

\* Version 1 with 198 black modules of 441, just under 45%: k = 1.
C27_Witness ==
  /\ pc = "returned"
  /\ balVersion = 1 /\ balBlack = 198
  /\ balResult = 10

(***************************************************************************)
(* The product in GF(2^8) = GF(2)[t] / (t^8 + t^4 + t^3 + t^2 + 1), worked *)
(* out in two separate steps: the product of the two polynomials over      *)
(* GF(2), of degree up to 14, and its remainder by 0x11D.                  *)
(***************************************************************************)
RECURSIVE polynomialProduct(_, _, _)
polynomialProduct(x, y, i) ==
  IF i = 8 THEN 0
  ELSE LET higher == polynomialProduct(x, y, i + 1)
       IN  CASE higher = higher -> xorBits(higher, ((y \div (2 ^ i)) % 2) * x * (2 ^ i), 16)

RECURSIVE polynomialRemainder(_, _)
polynomialRemainder(p, bit) ==
  IF bit < 8 THEN p
  ELSE polynomialRemainder(IF (p \div (2 ^ bit)) % 2 = 1
                             THEN xorBits(p, 285 * (2 ^ (bit - 8)), 16) ELSE p,
                           bit - 1)

fieldProduct(x, y) == polynomialRemainder(polynomialProduct(x, y, 0), 14)

\* The third operands of the laws of three operands.
ThirdChoices == {(255 + 143 * k) % 256 : k \in 0..(MaxThird - 1)}

(***************************************************************************)
(* C28: for all bytes x and y, reedSolomonMultiply(x, y) is a byte, the    *)
(* product of x and y in GF(2^8) reduced by 0x11D; the operation is        *)
(* commutative and associative, distributes over XOR, has 1 as identity    *)
(* and 0 as annihilator; 0x02*0x02 = 0x04 and 0xFF*0xFF = 0xE2.            *)
(***************************************************************************)
C28_FieldProduct ==
  (pc = "returned" /\ mulResult # -1) =>
    /\ mulResult \in 0..255
    /\ mulResult = fieldProduct(mulX, mulY)
    /\ mulResult = reedSolomonMultiply(mulY, mulX)
    /\ (mulY = 1 => mulResult = mulX)
    /\ (mulX = 1 => mulResult = mulY)
    /\ ((mulX = 0 \/ mulY = 0) => mulResult = 0)
    /\ ((mulX = 2 /\ mulY = 2) => mulResult = 4)
    /\ ((mulX = 255 /\ mulY = 255) => mulResult = 226)
    /\ \A z \in ThirdChoices :
         /\ \A yz \in {reedSolomonMultiply(mulY, z)} :
              reedSolomonMultiply(mulResult, z) = reedSolomonMultiply(mulX, yz)
         /\ \A sum \in {Xor(mulY, z)} :
              reedSolomonMultiply(mulX, sum) = Xor(mulResult, reedSolomonMultiply(mulX, z))

\* 0xFF * 0xFF: every pass of the loop adds x, and six of them reduce.
C28_Witness ==
  /\ pc = "returned"
  /\ mulX = 255 /\ mulY = 255
  /\ mulResult = 226

(***************************************************************************)
(* C29: MakeECI returns the range error, and no segment, for every         *)
(* assignment value outside 0..999999, the negative values included, and   *)
(* does not abort.                                                         *)
(***************************************************************************)
C29_OutOfRangeIsAnError ==
  (madeBy("MakeECI") /\ assignValue \notin 0..999999) =>
    /\ made.panic = NoPanic
    /\ made.err = ErrECI
    /\ made.segs = <<>>

====
